---------------------------- MODULE Spec2Model ----------------------------
(***************************************************************************)
(* A model of the attitude filters (Madgwick, Mahony), of the Quaternion   *)
(* value class and of the World Magnetic Model (WMM) of the ahrs package.  *)
(*                                                                         *)
(* Numbers.  The program computes on numpy float64 arrays.  A float is     *)
(* modelled as a fixed-point integer x standing for x / Scale, with        *)
(* round-to-nearest after every product, quotient and square root, plus    *)
(* one value NaN that every operation propagates.  0/0 is NaN.  A norm is  *)
(* zero exactly when every component is zero, as it is for floats that do  *)
(* not underflow.                                                          *)
(*                                                                         *)
(* Arrays.  A numpy array the caller owns is a cell of the record arr; an  *)
(* in-place operation (q /= n, q += d) writes that cell, and a function    *)
(* that returns its argument returns a reference to the cell.              *)
(***************************************************************************)
EXTENDS Integers, Sequences, FiniteSets, TLC

VARIABLES
    arr,        \* the caller's arrays q, g, a, m (contents after the last call)
    last,       \* the last call: operation, arguments as passed, outcome
    calls,      \* number of update calls made so far
    mself,      \* the Madgwick object: beta, frequency, Dt, acc, gyr, mag, Q
    klass,      \* Mahony.__dict__, the dict defined in the class body
    inst,       \* the Mahony objects: per object, constructed?, eInt, constructor kwargs
    quat,       \* the Quaternion object under test, its argument and result
    wmm         \* the WMM object and the last call made on it

vars == <<arr, last, calls, mself, klass, inst, quat, wmm>>

---------------------------------------------------------------------------
(* Bounds of the model *)

\* update calls per run
MaxCalls == 2

\* rows of a sensor array passed to the Madgwick constructor
MaxSamples == 3

---------------------------------------------------------------------------
(* float64, as fixed point *)

Scale == 2^10

NaN == 0 - 2^30

\* F(x), with x evaluated once
Let(x, F(_)) == CHOOSE r \in { F(y) : y \in {x} } : TRUE

Abs(x) == IF x < 0 THEN -x ELSE x

Sign(x) == IF x < 0 THEN -1 ELSE 1

\* n / d for integers, d # 0, rounded to nearest (half away from zero)
RoundDiv(n, d) ==
    Let(<<n, d>>, LAMBDA p :
        Sign(p[1]) * Sign(p[2]) * ((2 * Abs(p[1]) + Abs(p[2])) \div (2 * Abs(p[2]))))

Add(x, y) == Let(<<x, y>>, LAMBDA p : IF p[1] = NaN \/ p[2] = NaN THEN NaN ELSE p[1] + p[2])

Sub(x, y) == Let(<<x, y>>, LAMBDA p : IF p[1] = NaN \/ p[2] = NaN THEN NaN ELSE p[1] - p[2])

Neg(x) == Let(x, LAMBDA y : IF y = NaN THEN NaN ELSE -y)

Mul(x, y) ==
    Let(<<x, y>>, LAMBDA p :
        IF p[1] = NaN \/ p[2] = NaN THEN NaN ELSE RoundDiv(p[1] * p[2], Scale))

\* x / y; a vector is only ever divided by its own norm, so y = 0 means 0/0
Div(x, y) ==
    Let(<<x, y>>, LAMBDA p :
        IF p[1] = NaN \/ p[2] = NaN \/ p[2] = 0 THEN NaN ELSE RoundDiv(p[1] * Scale, p[2]))

\* x ** 2
Sq(x) == Mul(x, x)

\* the float k, for an integer k
Num(k) == k * Scale

Half == Scale \div 2

\* Newton's iteration for the integer part of sqrt(n), from a guess x >= sqrt(n)
RECURSIVE SqrtFrom(_, _)
SqrtFrom(n, x) ==
    Let(<<n, x>>, LAMBDA p :
        Let((p[2] + p[1] \div p[2]) \div 2, LAMBDA y :
            IF y >= p[2] THEN p[2] ELSE SqrtFrom(p[1], y)))

\* the integer nearest to sqrt(n), and at least 1 when n >= 1
ISqrt(n) ==
    Let(n, LAMBDA k :
        IF k = 0 THEN 0
        ELSE Let(SqrtFrom(k, IF k <= 4 * Scale * Scale THEN 2 * Scale ELSE 46341), LAMBDA r :
                 IF k - r * r > r THEN r + 1 ELSE r))

HasNaN(v) == \E i \in DOMAIN v : v[i] = NaN

RECURSIVE SumSq(_, _)
SumSq(v, i) == IF i = 0 THEN 0 ELSE v[i] * v[i] + SumSq(v, i - 1)

\* np.linalg.norm(v)
Norm(v) == Let(v, LAMBDA u : IF HasNaN(u) THEN NaN ELSE ISqrt(SumSq(u, Len(u))))

\* v / s, v * s, u + v, u - v, elementwise
VDiv(v, s) == Let(<<v, s>>, LAMBDA p : [i \in DOMAIN p[1] |-> Div(p[1][i], p[2])])

VMul(v, s) == Let(<<v, s>>, LAMBDA p : [i \in DOMAIN p[1] |-> Mul(p[1][i], p[2])])

VAdd(u, v) == Let(<<u, v>>, LAMBDA p : [i \in DOMAIN p[1] |-> Add(p[1][i], p[2][i])])

VSub(u, v) == Let(<<u, v>>, LAMBDA p : [i \in DOMAIN p[1] |-> Sub(p[1][i], p[2][i])])

\* v / np.linalg.norm(v)
Normalized(v) == Let(v, LAMBDA u : VDiv(u, Norm(u)))

\* np.cross(a, b)
CrossOf(a, b) ==
    << Sub(Mul(a[2], b[3]), Mul(a[3], b[2])),
       Sub(Mul(a[3], b[1]), Mul(a[1], b[3])),
       Sub(Mul(a[1], b[2]), Mul(a[2], b[1])) >>

Cross(a, b) == Let(<<a, b>>, LAMBDA p : CrossOf(p[1], p[2]))

Zero3 == <<0, 0, 0>>

\* the norm is 1 within the tolerance of the number format
IsUnit(v) == ~HasNaN(v) /\ Abs(Norm(v) - Scale) <= Scale \div 64

\* pi, and np.arctan(t) for 0 <= t <= 1 (to within 0.002 rad; 0 at t = 0)
Pi == (355 * Scale) \div 113

ArctanUnit(t) ==
    Let(t, LAMBDA u :
        Sub(Mul(Pi \div 4, u),
            Mul(Mul(u, Sub(u, Scale)), Add(RoundDiv(2447 * Scale, 10000),
                                          Mul(RoundDiv(663 * Scale, 10000), u)))))

\* np.arctan2(y, x), in radians: arctan2(0, x) is 0 for x >= 0 and pi for x < 0
Arctan2Of(y, x) ==
    Let(IF Abs(y) <= Abs(x)
        THEN (IF x = 0 THEN 0 ELSE ArctanUnit(Div(Abs(y), Abs(x))))
        ELSE Pi \div 2 - ArctanUnit(Div(Abs(x), Abs(y))), LAMBDA a :
        Let(IF x < 0 THEN Pi - a ELSE a, LAMBDA b : IF y < 0 THEN -b ELSE b))

Arctan2(y, x) ==
    Let(<<y, x>>, LAMBDA p : IF p[1] = NaN \/ p[2] = NaN THEN NaN ELSE Arctan2Of(p[1], p[2]))

\* pi / 2
HalfPi == Pi \div 2

\* np.sin(x) for 0 <= x <= pi/2 (Bhaskara's rational approximation, to within
\* 0.002): exactly 0 at 0 and exactly 1 at pi/2
SinUnit(x) ==
    Let(Mul(x, Pi - x), LAMBDA u : Div(16 * u, 5 * Mul(Pi, Pi) - 4 * u))

\* np.sin(x), -2 pi <= x <= 2 pi
RECURSIVE Sin(_)
Sin(x) ==
    Let(x, LAMBDA y :
        IF y = NaN THEN NaN
        ELSE IF y < 0 THEN -Sin(-y)
        ELSE IF y > Pi THEN -Sin(y - Pi)
        ELSE IF y > HalfPi THEN SinUnit(Pi - y)
        ELSE SinUnit(y))

\* np.cos(x), -pi <= x <= pi
Cos(x) == Let(x, LAMBDA y : IF y = NaN THEN NaN ELSE Sin(HalfPi - y))

\* np.sqrt(x), x >= 0
Sqrt(x) == Let(x, LAMBDA y : IF y = NaN THEN NaN ELSE ISqrt(y * Scale))

\* np.arcsin(s), -1 <= s <= 1
Arcsin(s) == Let(s, LAMBDA t : Arctan2(t, Sqrt(Sub(Scale, Sq(t)))))

\* Python's round(x): the nearest integer, a tie going to the even one
RoundHalfEven(x) ==
    Let(<<x \div Scale, x % Scale>>, LAMBDA p :
        IF p[2] > Half \/ (p[2] = Half /\ p[1] % 2 = 1) THEN p[1] + 1 ELSE p[1])

\* the float n / d for integers n >= 0 and d > 0, n * Scale being too large
\* for the integers of the checker
Ratio(n, d) == (n \div d) * Scale + RoundDiv((n % d) * Scale, d)

\* x * y as Mul computes it, for |x| up to 2^23 and |y| up to 2^11: the
\* product is formed from the integer and the fractional part of x
MulWide(x, y) ==
    Let(<<Abs(x), Abs(y), Sign(x) * Sign(y)>>, LAMBDA p :
        p[3] * ((p[1] \div Scale) * p[2] + RoundDiv((p[1] % Scale) * p[2], Scale)))

\* x / y as Div computes it, for |x| and |y| up to 2^23, y # 0: the quotient
\* is formed from the integer quotient and the remainder
DivWide(x, y) ==
    Let(<<Abs(x) \div Abs(y), Abs(x) % Abs(y), Abs(y), Sign(x) * Sign(y)>>, LAMBDA p :
        p[4] * (p[1] * Scale + (IF p[3] < 2^20 THEN RoundDiv(p[2] * Scale, p[3])
                                ELSE RoundDiv(p[2] * (Scale \div 8), p[3] \div 8))))

\* np.linalg.norm([x, y]), for |x| and |y| up to 2^22: the larger component
\* times the norm of the pair divided by it
NormWide(x, y) ==
    Let(<<x, y, IF Abs(x) >= Abs(y) THEN Abs(x) ELSE Abs(y)>>, LAMBDA p :
        IF p[3] = 0 THEN 0
        ELSE MulWide(p[3], Norm(<<DivWide(p[1], p[3]), DivWide(p[2], p[3])>>)))

---------------------------------------------------------------------------
(* ahrs.common.orientation: q_prod and q_conj, imported by both filters *)

\* the Hamilton product p*q of two 4-tuples
HamiltonOf(p, q) ==
    << Sub(Sub(Sub(Mul(p[1], q[1]), Mul(p[2], q[2])), Mul(p[3], q[3])), Mul(p[4], q[4])),
       Sub(Add(Add(Mul(p[1], q[2]), Mul(p[2], q[1])), Mul(p[3], q[4])), Mul(p[4], q[3])),
       Add(Add(Sub(Mul(p[1], q[3]), Mul(p[2], q[4])), Mul(p[3], q[1])), Mul(p[4], q[2])),
       Add(Sub(Add(Mul(p[1], q[4]), Mul(p[2], q[3])), Mul(p[3], q[2])), Mul(p[4], q[1])) >>

\* q_prod(p, q)
q_prod(p, q) == Let(<<p, q>>, LAMBDA a : HamiltonOf(a[1], a[2]))

\* q_conj(q): the conjugate (w, -x, -y, -z)
q_conj(q) == Let(q, LAMBDA p : << p[1], Neg(p[2]), Neg(p[3]), Neg(p[4]) >>)

---------------------------------------------------------------------------
(* Madgwick: the two update operations *)

\* J.T @ F for a Jacobian J of n rows and 4 columns
RECURSIVE ColDot(_, _, _, _)
ColDot(J, F, j, i) ==
    IF i = 0 THEN 0 ELSE Add(Mul(J[i][j], F[i]), ColDot(J, F, j, i - 1))

JTF(J, F) == Let(<<J, F>>, LAMBDA p : [j \in 1..4 |-> ColDot(p[1], p[2], j, Len(p[2]))])

\* updateIMU lines 163-165: the objective f, for q and a both normalised
IMU_f(q, a) ==
    Let(<<q[1], q[2], q[3], q[4], a>>, LAMBDA p :
        << Sub(Mul(Num(2), Sub(Mul(p[2], p[4]), Mul(p[1], p[3]))), p[5][1]),
           Sub(Mul(Num(2), Add(Mul(p[1], p[2]), Mul(p[3], p[4]))), p[5][2]),
           Sub(Mul(Num(2), Sub(Sub(Half, Sq(p[2])), Sq(p[3]))), p[5][3]) >>)

\* updateIMU lines 166-168: the Jacobian J; q is (qw, qx, qy, qz)
IMU_J(q) ==
    Let(q, LAMBDA p :
        << << Neg(p[3]), p[4], Neg(p[1]), p[2] >>,
           << p[2], p[1], p[4], p[3] >>,
           << 0, Mul(Num(-2), p[2]), Mul(Num(-2), p[3]), 0 >> >>)

\* updateIMU lines 169-170: step = 2.0*J.T@f; step /= norm(step)
IMU_step(q, a) == Normalized(VMul(JTF(IMU_J(q), IMU_f(q, a)), Num(2)))

\* lines 172-175, 236-239: qDot from the gyroscope and the step; q += qDot*Dt;
\* q /= norm(q)
Integrate(self, q, g, step) ==
    Let(<<q, g>>, LAMBDA p :
        Let(VSub(VMul(q_prod(p[1], <<0, p[2][1], p[2][2], p[2][3]>>), Half),
                 VMul(step, self.beta)), LAMBDA qDot :
            Normalized(VAdd(p[1], VMul(qDot, self.Dt)))))

\* updateIMU with the quaternion normalised before the accelerometer is
\* looked at
Madgwick_updateIMU_NormalisedFirst(self, q, gyr, acc) ==
    Let(<<Norm(acc), Normalized(q)>>, LAMBDA n :
        IF n[1] = 0 THEN n[2]
        ELSE Integrate(self, n[2], gyr, IMU_step(n[2], VDiv(acc, n[1]))))

\* Madgwick.updateIMU(q, gyr, acc): the contents of the array q when the call
\* returns.  q is written in place and the call returns q itself.
Madgwick_updateIMU(self, q, gyr, acc) ==
    Let(Norm(acc), LAMBDA a_norm :
        IF a_norm = 0 THEN q
        ELSE Let(<<VDiv(acc, a_norm), Normalized(q)>>, LAMBDA p :
                 Integrate(self, p[2], gyr, IMU_step(p[2], p[1]))))

\* updateMARG lines 218-219: the reference direction b of the magnetic field
MARG_b(q, m) ==
    Let(q_prod(q, q_prod(<<0, m[1], m[2], m[3]>>, q_conj(q))), LAMBDA h :
        << 0, Norm(<<h[2], h[3]>>), 0, h[4] >>)

\* updateMARG lines 221-226: the objective F; q is (qw, qx, qy, qz) and b is
\* (0, bx, 0, bz)
MARG_FOf(qw, qx, qy, qz, a, m, bx, bz) ==
    << Sub(Sub(Mul(qx, qz), Mul(qw, qy)), Mul(Half, a[1])),
       Sub(Add(Mul(qw, qx), Mul(qy, qz)), Mul(Half, a[2])),
       Sub(Sub(Sub(Half, Sq(qx)), Sq(qy)), Mul(Half, a[3])),
       Sub(Add(Mul(bx, Sub(Sub(Half, Sq(qy)), Sq(qz))),
               Mul(bz, Sub(Mul(qx, qz), Mul(qw, qy)))), Mul(Half, m[1])),
       Sub(Add(Mul(bx, Sub(Mul(qx, qy), Mul(qw, qz))),
               Mul(bz, Add(Mul(qw, qx), Mul(qy, qz)))), Mul(Half, m[2])),
       Sub(Add(Mul(bx, Add(Mul(qw, qy), Mul(qx, qz))),
               Mul(bz, Sub(Sub(Half, Sq(qx)), Sq(qy)))), Mul(Half, m[3])) >>

MARG_F(q, a, m, b) ==
    Let(<<q, a, m, b>>, LAMBDA p :
        MARG_FOf(p[1][1], p[1][2], p[1][3], p[1][4], p[2], p[3], p[4][2], p[4][4]))

\* updateMARG lines 227-232: the Jacobian J
MARG_JOf(qw, qx, qy, qz, bx, bz) ==
    << << Neg(qy), qz, Neg(qw), qx >>,
       << qx, qw, qz, qy >>,
       << 0, Mul(Num(-2), qx), Mul(Num(-2), qy), 0 >>,
       << Mul(Neg(bz), qy),
          Mul(bz, qz),
          Sub(Mul(Mul(Num(-2), bx), qy), Mul(bz, qw)),
          Add(Mul(Mul(Num(-2), bx), qz), Mul(bz, qx)) >>,
       << Add(Mul(Neg(bx), qz), Mul(Mul(Num(2), bz), qx)),
          Add(Mul(bx, qy), Mul(bz, qw)),
          Add(Mul(bx, qx), Mul(bz, qz)),
          Add(Mul(Neg(bx), qw), Mul(bz, qy)) >>,
       << Mul(bx, qy),
          Sub(Mul(bx, qz), Mul(Mul(Num(2), bz), qx)),
          Sub(Mul(bx, qw), Mul(Mul(Num(2), bz), qy)),
          Mul(bx, qx) >> >>

MARG_J(q, b) ==
    Let(<<q, b>>, LAMBDA p : MARG_JOf(p[1][1], p[1][2], p[1][3], p[1][4], p[2][2], p[2][4]))

\* updateMARG lines 233-234: step = 4.0*J.T@F; step /= norm(step)
MARG_step(q, a, m) ==
    Let(<<q, a, m, MARG_b(q, m)>>, LAMBDA p :
        Normalized(VMul(JTF(MARG_J(p[1], p[4]), MARG_F(p[1], p[2], p[3], p[4])), Num(4))))

\* Madgwick.updateMARG(q, gyr, acc, mag): the contents of the array q when the
\* call returns.  q is written in place and the call returns q itself.
Madgwick_updateMARG(self, q, gyr, acc, mag) ==
    Let(<<Norm(acc), Norm(mag)>>, LAMBDA n :
        IF n[1] = 0 THEN q
        ELSE IF n[2] = 0 THEN q
        ELSE Let(<<VDiv(acc, n[1]), VDiv(mag, n[2]), Normalized(q)>>, LAMBDA p :
                 Integrate(self, p[3], gyr, MARG_step(p[3], p[1], p[2]))))

---------------------------------------------------------------------------
(* Madgwick: the constructor and the batch computations *)

\* an attribute that is None, and an array of samples: a tuple of rows
NoArray == <<>>

\* kwargs.get(k, default)
Get(kwargs, k, default) == IF k \in DOMAIN kwargs THEN kwargs[k] ELSE default

\* x.shape for an array of at least one row
Shape(x) == <<Len(x), Len(x[1])>>

\* np.zeros((n, 4)) with row 0 set to the seed q0
SeededQ(n, q0) == [t \in 1..n |-> IF t = 1 THEN q0 ELSE <<0, 0, 0, 0>>]

\* compute_IMU lines 80-81, from row t on (rows count from 1 here).  Q[t-1]
\* is a view of the row: updateIMU writes the row in place and returns it,
\* and the assignment copies it into row t.
RECURSIVE IMU_rows(_, _, _)
IMU_rows(self, Q, t) ==
    IF t > Len(self.acc) THEN Q
    ELSE Let(Madgwick_updateIMU(self, Q[t - 1], self.gyr[t], self.acc[t]), LAMBDA r :
             IMU_rows(self, [Q EXCEPT ![t - 1] = r, ![t] = r], t + 1))

\* compute_MARG lines 101-102, likewise
RECURSIVE MARG_rows(_, _, _)
MARG_rows(self, Q, t) ==
    IF t > Len(self.acc) THEN Q
    ELSE Let(Madgwick_updateMARG(self, Q[t - 1], self.gyr[t], self.acc[t], self.mag[t]),
             LAMBDA r : MARG_rows(self, [Q EXCEPT ![t - 1] = r, ![t] = r], t + 1))

\* the outcome of a batch computation: the exception raised, the array
\* returned, and the number of update calls made
Raised(e) == [raised |-> e, Q |-> <<>>, updates |-> 0]

Returned(Q) == [raised |-> "none", Q |-> Q, updates |-> Len(Q) - 1]

\* compute_IMU(), the seed acc2q(self.acc[0]) being q0
compute_IMU(self, q0) ==
    IF Shape(self.acc) # Shape(self.gyr) THEN Raised("ValueError")
    ELSE Returned(IMU_rows(self, SeededQ(Len(self.acc), q0), 2))

\* compute_MARG guarding only against arrays shorter than acc
compute_MARG_ShorterOnly(self, q0) ==
    IF Len(self.gyr) < Len(self.acc) \/ Len(self.mag) < Len(self.acc) THEN Raised("ValueError")
    ELSE Returned(MARG_rows(self, SeededQ(Len(self.acc), q0), 2))

\* compute_MARG(), the seed cardan2q(am2angles(self.acc[0], self.mag[0]))
\* being q0
compute_MARG(self, q0) ==
    IF Shape(self.acc) # Shape(self.gyr) THEN Raised("ValueError")
    ELSE IF Shape(self.acc) # Shape(self.mag) THEN Raised("ValueError")
    ELSE Returned(MARG_rows(self, SeededQ(Len(self.acc), q0), 2))

\* lines 56-62: the attributes set before any computation
Attributes(kwargs) ==
    Let(Get(kwargs, "frequency", Num(100)), LAMBDA frequency :
        [beta |-> Get(kwargs, "beta", RoundDiv(Scale, 10)),
         frequency |-> frequency,
         Dt |-> Get(kwargs, "Dt", Div(Scale, frequency)),
         acc |-> Get(kwargs, "acc", NoArray),
         gyr |-> Get(kwargs, "gyr", NoArray),
         mag |-> Get(kwargs, "mag", NoArray),
         hasQ |-> FALSE, Q |-> <<>>])

\* Madgwick(**kwargs): the object, the exception raised and the number of
\* update calls made.  self.Q is set only when a computation returns.
Madgwick__init__(kwargs, q0) ==
    Let(Attributes(kwargs), LAMBDA self :
        IF self.acc # NoArray /\ self.gyr # NoArray
        THEN Let(IF self.mag # NoArray THEN compute_MARG(self, q0) ELSE compute_IMU(self, q0),
                 LAMBDA c :
                 [self |-> IF c.raised = "none" THEN [self EXCEPT !.hasQ = TRUE, !.Q = c.Q]
                           ELSE self,
                  raised |-> c.raised, updates |-> c.updates])
        ELSE [self |-> self, raised |-> "none", updates |-> 0])

---------------------------------------------------------------------------
(* Mahony: the class dict, the constructor and the two update operations *)

\* the dict assigned to __dict__ in the class body: one object, which
\* self.__dict__ evaluates to for every instance
Mahony__dict__ == [Kp |-> Scale, Ki |-> 0, samplePeriod |-> Scale \div 256]

\* self.__dict__ for the object o: the class attribute, whichever the object
self__dict__(o) == klass

\* dict.update(kwargs)
DictUpdate(d, kwargs) ==
    [k \in DOMAIN d \cup DOMAIN kwargs |-> IF k \in DOMAIN kwargs THEN kwargs[k] ELSE d[k]]

\* kwargs[k] if k in kwargs.keys() else self.__dict__[k]
ReadParam(dict, kwargs, k) == IF k \in DOMAIN kwargs THEN kwargs[k] ELSE dict[k]

\* lines 71-73, 134-136: the estimated direction of gravity v
Mahony_v(q) ==
    Let(q, LAMBDA p :
        << Mul(Num(2), Sub(Mul(p[2], p[4]), Mul(p[1], p[3]))),
           Mul(Num(2), Add(Mul(p[1], p[2]), Mul(p[3], p[4]))),
           Add(Sub(Sub(Sq(p[1]), Sq(p[2])), Sq(p[3])), Sq(p[4])) >>)

\* lines 137-139: w from q = (qw, qx, qy, qz), 2.0*b[1] and 2.0*b[3]
Mahony_wOf(qw, qx, qy, qz, bx2, bz2) ==
    << Add(Mul(bx2, Sub(Sub(Half, Sq(qy)), Sq(qz))), Mul(bz2, Sub(Mul(qx, qz), Mul(qw, qy)))),
       Add(Mul(bx2, Sub(Mul(qx, qy), Mul(qw, qz))), Mul(bz2, Add(Mul(qw, qx), Mul(qy, qz)))),
       Add(Mul(bx2, Add(Mul(qw, qy), Mul(qx, qz))), Mul(bz2, Sub(Sub(Half, Sq(qx)), Sq(qy)))) >>

\* lines 131-132, 137-139: the estimated direction of the magnetic flux w
Mahony_w(q, m) ==
    Let(<<q, MARG_b(q, m)>>, LAMBDA p :
        Let(<<Mul(Num(2), p[2][2]), Mul(Num(2), p[2][4])>>, LAMBDA b2 :
            Mahony_wOf(p[1][1], p[1][2], p[1][3], p[1][4], b2[1], b2[2])))

\* updateIMU line 74: the error e, for a normalised and q normalised
IMU_e(q, a) == Cross(a, Mahony_v(q))

\* updateMARG line 141: the error e, for a and m normalised
MARG_e(q, a, m) == Let(<<q, a, m>>, LAMBDA p :
    VAdd(Cross(p[2], Mahony_v(p[1])), Cross(p[3], Mahony_w(p[1], p[3]))))

\* the accumulator kept, not cleared, when Ki is not positive
NewEInt_Kept(eInt, e, Ki, samplePeriod) ==
    IF Ki > 0 THEN VAdd(eInt, VMul(e, samplePeriod)) ELSE eInt

\* the accumulator overwritten by the last error term instead of added to
NewEInt_Overwritten(eInt, e, Ki, samplePeriod) ==
    IF Ki > 0 THEN VMul(e, samplePeriod) ELSE Zero3

\* lines 75, 142: the new value of self.eInt
NewEInt(eInt, e, Ki, samplePeriod) ==
    IF Ki > 0 THEN VAdd(eInt, VMul(e, samplePeriod)) ELSE Zero3

\* lines 77-82, 144-149: g += Kp*e + Ki*eInt; q += qDot*samplePeriod; q /= norm(q).
\* The contents of g and q afterwards.
Feedback(q, g, e, eInt, Kp, Ki, samplePeriod) ==
    Let(<<q, VAdd(g, VAdd(VMul(e, Kp), VMul(eInt, Ki)))>>, LAMBDA p :
        Let(VMul(q_prod(p[1], <<0, p[2][1], p[2][2], p[2][3]>>), Half), LAMBDA qDot :
            [g |-> p[2], q |-> Normalized(VAdd(p[1], VMul(qDot, samplePeriod)))]))

\* lines 74-82 of updateIMU, 141-149 of updateMARG, given the error e
Correct(eInt, dict, kwargs, q, g, e) ==
    Let(<<ReadParam(dict, kwargs, "Kp"), ReadParam(dict, kwargs, "Ki"),
          ReadParam(dict, kwargs, "samplePeriod"), e>>, LAMBDA p :
        Let(NewEInt(eInt, p[4], p[2], p[3]), LAMBDA eI :
            Let(Feedback(q, g, p[4], eI, p[1], p[2], p[3]), LAMBDA fb :
                [q |-> fb.q, g |-> fb.g, eInt |-> eI])))

\* Mahony.updateIMU(g, a, q, **kwargs) on an object whose eInt is eInt, with
\* self.__dict__ being dict: the contents of the arrays q, g, a and of
\* self.eInt when the call returns.  The call returns q itself.
Mahony_updateIMU(eInt, dict, g, a, q, kwargs) ==
    Let(Norm(a), LAMBDA a_norm :
        IF a_norm = 0 THEN [q |-> q, g |-> g, a |-> a, eInt |-> eInt]
        ELSE Let(<<VDiv(a, a_norm), Normalized(q)>>, LAMBDA p :
                 Let(Correct(eInt, dict, kwargs, p[2], g, IMU_e(p[2], p[1])), LAMBDA c :
                     [q |-> c.q, g |-> c.g, a |-> p[1], eInt |-> c.eInt])))

\* updateMARG with the quaternion normalised after the accelerometer, as in
\* updateIMU, and so before the magnetometer is looked at
Mahony_updateMARG_NormalisedFirst(eInt, dict, g, a, m, q, kwargs) ==
    Let(<<Norm(a), Norm(m)>>, LAMBDA n :
        IF n[1] = 0 THEN [q |-> q, g |-> g, a |-> a, m |-> m, eInt |-> eInt]
        ELSE Let(<<VDiv(a, n[1]), Normalized(q)>>, LAMBDA p :
                 IF n[2] = 0 THEN [q |-> p[2], g |-> g, a |-> p[1], m |-> m, eInt |-> eInt]
                 ELSE Let(VDiv(m, n[2]), LAMBDA m1 :
                          Let(Correct(eInt, dict, kwargs, p[2], g, MARG_e(p[2], p[1], m1)),
                              LAMBDA c :
                              [q |-> c.q, g |-> c.g, a |-> p[1], m |-> m1, eInt |-> c.eInt]))))

\* Mahony.updateMARG(g, a, m, q, **kwargs): the contents of the arrays q, g, a,
\* m and of self.eInt when the call returns.  The call returns q itself.
Mahony_updateMARG(eInt, dict, g, a, m, q, kwargs) ==
    Let(<<Norm(a), Norm(m)>>, LAMBDA n :
        IF n[1] = 0 THEN [q |-> q, g |-> g, a |-> a, m |-> m, eInt |-> eInt]
        ELSE Let(VDiv(a, n[1]), LAMBDA a1 :
                 IF n[2] = 0 THEN [q |-> q, g |-> g, a |-> a1, m |-> m, eInt |-> eInt]
                 ELSE Let(VDiv(m, n[2]), LAMBDA m1 :
                          Let(Correct(eInt, dict, kwargs, q, g, MARG_e(q, a1, m1)), LAMBDA c :
                              [q |-> c.q, g |-> c.g, a |-> a1, m |-> m1, eInt |-> c.eInt]))))

---------------------------------------------------------------------------
(* Quaternion *)

\* Quaternion.__init__(v) for v a list or an array of 3 or 4 numbers, or None
\* (the empty tuple): the value of self._q
Quaternion__init__(v) ==
    Normalized(IF Len(v) = 0 THEN <<Scale, 0, 0, 0>>
               ELSE IF Len(v) = 3 THEN <<0>> \o v
               ELSE v)

\* lines 37-41: the array pq, self._q being p
ProdOf(p, q) ==
    << Sub(Sub(Sub(Mul(p[1], q[1]), Mul(p[2], q[2])), Mul(p[3], q[3])), Mul(p[4], q[4])),
       Add(Sub(Add(Mul(p[1], q[2]), Mul(p[2], q[1])), Mul(p[3], q[4])), Mul(p[4], q[3])),
       Sub(Add(Add(Mul(p[1], q[3]), Mul(p[2], q[4])), Mul(p[3], q[1])), Mul(p[4], q[2])),
       Add(Add(Sub(Mul(p[1], q[4]), Mul(p[2], q[3])), Mul(p[3], q[2])), Mul(p[4], q[1])) >>

\* Quaternion.prod(q), self._q being p: the array returned
Quaternion_prod(p, q) == Let(<<p, q>>, LAMBDA a : ProdOf(a[1], a[2]))

\* Quaternion.conj(), self._q being p and one-dimensional: the array returned
Quaternion_conj(p) == Let(p, LAMBDA q : << Mul(q[2], Num(-1)), Mul(q[3], Num(-1)), Mul(q[4], Num(-1)) >>)

\* to_axang dividing by the norm of the vector part whatever the angle
Quaternion_to_axang_AlwaysDivides(p) ==
    Let(<<p[1], <<p[2], p[3], p[4]>>, Norm(<<p[2], p[3], p[4]>>)>>, LAMBDA a :
        [axis |-> VDiv(a[2], a[3]), angle |-> Mul(Num(2), Arctan2(a[3], a[1]))])

\* Quaternion.to_axang(), self._q being p: the axis and the angle returned
Quaternion_to_axang(p) ==
    Let(<<p[1], <<p[2], p[3], p[4]>>, Norm(<<p[2], p[3], p[4]>>)>>, LAMBDA a :
        Let(Mul(Num(2), Arctan2(a[3], a[1])), LAMBDA angle :
            [axis |-> IF angle = 0 THEN Zero3 ELSE VDiv(a[2], a[3]), angle |-> angle]))

---------------------------------------------------------------------------
(* WMM: dates, coefficient files, loading and denormalisation *)

\* the radii of the Earth, in metres (the polar radius to the metre)
EQUATOR_RADIUS == 6378137

POLAR_RADIUS == 6356752

MEAN_EARTH_RADIUS == 6371200

\* np.pi/180.0 and 180.0/np.pi; DEG2RAD carries Fine more fractional bits
\* than the other floats, so that 90 degrees is pi/2 to the last bit
Fine == 2^8

DEG2RAD == RoundDiv(Pi * Fine, 180)

RAD2DEG == RoundDiv(180 * Scale * Scale, Pi)

\* x * DEG2RAD
ToRadians(x) == Let(x, LAMBDA d : IF d = NaN THEN NaN ELSE RoundDiv(d * DEG2RAD, Scale * Fine))

\* datetime.date: a date is its year and its day of the year (tm_yday);
\* the days before 1 January of year y, and toordinal()
DaysBeforeYear(y) == (y - 1) * 365 + (y - 1) \div 4 - (y - 1) \div 100 + (y - 1) \div 400

toordinal(d) == DaysBeforeYear(d.year) + d.yday

\* datetime.date.fromordinal(n), for the years of the model
fromordinal(n) ==
    Let(n, LAMBDA o :
        Let(CHOOSE y \in 2010..2030 : DaysBeforeYear(y) < o /\ o <= DaysBeforeYear(y + 1),
            LAMBDA y : [year |-> y, yday |-> o - DaysBeforeYear(y)]))

\* the values of a date argument: a datetime.date, an int or a float, None
Date(y, d) == [kind |-> "date", year |-> y, yday |-> d, v |-> 0]

Float(x) == [kind |-> "float", year |-> 0, yday |-> 0, v |-> x]

None == [kind |-> "None", year |-> 0, yday |-> 0, v |-> 0]

\* int(x), x >= 0: the integer part
IntPart(x) == x \div Scale

\* round(x, 1)
Round1(x) == Let(x, LAMBDA d : IF d = NaN THEN NaN ELSE RoundDiv(RoundHalfEven(10 * d) * Scale, 10))

\* a matrix of r rows and c columns, indexed from 0
Zeros(r, c) == [ij \in (0..(r - 1)) \X (0..(c - 1)) |-> 0]

Identity(n) == [ij \in (0..(n - 1)) \X (0..(n - 1)) |-> IF ij[1] = ij[2] THEN Scale ELSE 0]

\* the two coefficient files: the header line (epoch, model, modeldate) and
\* the rows n, m, g, h, gd, hd up to the row of 9s.  The tables of the model
\* have degree 2 and coefficients of a few units.
WMM2015 == "./WMM2015/WMM.COF"

WMM2020 == "./WMM2020/WMM.COF"

COF2015 ==
    [epoch |-> Num(2015), model |-> "WMM-2015", modeldate |-> "12/15/2014",
     data |-> << <<1, 0, -3014, 0, 110, 0>>,
                 <<1, 1, -154, 491, 183, -274>>,
                 <<2, 0, -250, 0, -88, 0>>,
                 <<2, 1, 308, -291, -34, -277>>,
                 <<2, 2, 172, -66, 25, -136>> >>]

COF2020 ==
    [epoch |-> Num(2020), model |-> "WMM-2020", modeldate |-> "12/10/2019",
     data |-> << <<1, 0, -3011, 0, 69, 0>>,
                 <<1, 1, -149, 476, 79, -257>>,
                 <<2, 0, -256, 0, -118, 0>>,
                 <<2, 1, 305, -306, -73, -309>>,
                 <<2, 2, 172, -75, -23, -245>> >>]

\* other files a caller can hand to get_properties and load_coefficients:
\* the 2020 table under names without the extension, with a seventh column,
\* with its last column cut from the zonal rows (order 0), with its last
\* column cut from every row, with one row cut short, with its rows in
\* descending degree, and with one row only
NotCOF == "./WMM2020/WMM.txt"

LowerCOF == "./WMM2020/wmm.cof"

WideCOF == "./wide/WMM.COF"

ZonalCOF == "./zonal/WMM.COF"

ShortCOF == "./short/WMM.COF"

RaggedCOF == "./ragged/WMM.COF"

DescendingCOF == "./descending/WMM.COF"

OneRowCOF == "./onerow/WMM.COF"

\* the rows of a table, each through f
Rows(data, f(_, _)) == [i \in 1..Len(data) |-> f(i, data[i])]

COF(cof_file) ==
    IF cof_file = WMM2015 THEN COF2015
    ELSE Let(COF2020.data, LAMBDA d :
        [COF2020 EXCEPT !.data =
            CASE cof_file = WideCOF -> Rows(d, LAMBDA i, row : row \o <<0>>)
              [] cof_file = ZonalCOF ->
                     Rows(SelectSeq(d, LAMBDA row : row[2] = 0), LAMBDA i, row : SubSeq(row, 1, 5))
              [] cof_file = ShortCOF -> Rows(d, LAMBDA i, row : SubSeq(row, 1, 5))
              [] cof_file = RaggedCOF ->
                     Rows(d, LAMBDA i, row : IF i = 2 THEN SubSeq(row, 1, 4) ELSE row)
              [] cof_file = DescendingCOF -> Rows(d, LAMBDA i, row : d[Len(d) + 1 - i])
              [] cof_file = OneRowCOF -> SubSeq(d, 1, 1)
              [] OTHER -> d])

\* cof_file.endswith(".COF"), over the file names of the model
endswith_COF(cof_file) ==
    cof_file \in {WMM2015, WMM2020, WideCOF, ZonalCOF, ShortCOF, RaggedCOF, DescendingCOF,
                  OneRowCOF}

\* get_properties(cof_file); opened tells whether the file was opened
get_properties(cof_file) ==
    IF ~endswith_COF(cof_file)
    THEN [raised |-> "TypeError", properties |-> <<>>, opened |-> FALSE]
    ELSE [raised |-> "none",
          properties |-> [model |-> COF(cof_file).model, modeldate |-> COF(cof_file).modeldate,
                          epoch |-> COF(cof_file).epoch],
          opened |-> TRUE]

\* np.genfromtxt(cof_file, comments="999999", skip_header=1): the rows as a
\* 2-D array, a 1-D array for a single row, and ValueError when the rows
\* differ in their number of columns
genfromtxt(cof_file) ==
    Let(COF(cof_file).data, LAMBDA d :
        IF \E i, j \in DOMAIN d : Len(d[i]) # Len(d[j])
        THEN [raised |-> "ValueError", data |-> <<>>, ndim |-> 0]
        ELSE [raised |-> "none", data |-> d, ndim |-> IF Len(d) = 1 THEN 1 ELSE 2])

\* lines 329-334 storing h and its secular variation at [n, m]
StoreRow_HAtSameOrder(row, t) ==
    IF t.raised # "none" THEN t
    ELSE IF Len(row) < 5 \/ <<row[2], row[1]>> \notin DOMAIN t.c
    THEN [t EXCEPT !.raised = "IndexError"]
    ELSE Let([t EXCEPT !.c[<<row[2], row[1]>>] = row[3],
                       !.cd[<<row[2], row[1]>>] = row[5]], LAMBDA u :
             IF row[2] # 0
             THEN IF Len(row) < 6 \/ <<row[1], row[2]>> \notin DOMAIN u.c
                  THEN [u EXCEPT !.raised = "IndexError"]
                  ELSE [u EXCEPT !.c[<<row[1], row[2]>>] = row[4],
                                 !.cd[<<row[1], row[2]>>] = row[6]]
             ELSE u)

\* load_coefficients lines 329-334: one row of the table stored into c and
\* cd; an index outside the row or outside the matrices is an IndexError
StoreRow(row, t) ==
    IF t.raised # "none" THEN t
    ELSE IF Len(row) < 5 \/ <<row[2], row[1]>> \notin DOMAIN t.c
    THEN [t EXCEPT !.raised = "IndexError"]
    ELSE Let([t EXCEPT !.c[<<row[2], row[1]>>] = row[3],
                       !.cd[<<row[2], row[1]>>] = row[5]], LAMBDA u :
             IF row[2] # 0
             THEN IF Len(row) < 6 \/ <<row[1], row[2] - 1>> \notin DOMAIN u.c
                  THEN [u EXCEPT !.raised = "IndexError"]
                  ELSE [u EXCEPT !.c[<<row[1], row[2] - 1>>] = row[4],
                                 !.cd[<<row[1], row[2] - 1>>] = row[6]]
             ELSE u)

RECURSIVE StoreRows(_, _, _)
StoreRows(data, i, t) ==
    IF i > Len(data) THEN t
    ELSE StoreRows(data, i + 1, Let(<<data[i], t>>, LAMBDA p : StoreRow(p[1], p[2])))

\* load_coefficients(cof_file); opened tells whether the file was opened
load_coefficients(cof_file) ==
    IF ~endswith_COF(cof_file)
    THEN [raised |-> "TypeError", c |-> <<>>, cd |-> <<>>, opened |-> FALSE]
    ELSE Let(genfromtxt(cof_file), LAMBDA g :
        IF g.raised # "none"
        THEN [raised |-> g.raised, c |-> <<>>, cd |-> <<>>, opened |-> TRUE]
        ELSE IF g.ndim # 2
        THEN [raised |-> "IndexError", c |-> <<>>, cd |-> <<>>, opened |-> TRUE]
        ELSE Let(g.data[Len(g.data)][1] + 1, LAMBDA dims :
                 Let(StoreRows(g.data, 1, [c |-> Zeros(dims, dims), cd |-> Zeros(dims, dims),
                                           raised |-> "none"]), LAMBDA t :
                     IF t.raised # "none"
                     THEN [raised |-> t.raised, c |-> <<>>, cd |-> <<>>, opened |-> TRUE]
                     ELSE [raised |-> "none", c |-> t.c, cd |-> t.cd, opened |-> TRUE])))

\* lines 403-410 multiplying h and its secular variation by the factor of
\* the order before
DenormalizeOrder_HByFactorBefore(t, n, m) ==
    Let([t EXCEPT !.k[<<m, n>>] = Div(Num((n - 1) * (n - 1) - m * m),
                                      Num((2 * n - 1) * (2 * n - 3)))], LAMBDA u :
        Let(IF m > 0
            THEN Let(Mul(u.snorm[<<m - 1, n>>],
                         Sqrt(Div(Mul(u.j, Num(n - m + 1)), Num(n + m)))), LAMBDA s :
                     [u EXCEPT !.snorm[<<m, n>>] = s,
                               !.c[<<n, m - 1>>] = Mul(@, u.snorm[<<m - 1, n>>]),
                               !.cd[<<n, m - 1>>] = Mul(@, u.snorm[<<m - 1, n>>]),
                               !.j = Scale])
            ELSE u, LAMBDA w :
            [w EXCEPT !.c[<<m, n>>] = Mul(@, w.snorm[<<m, n>>]),
                      !.cd[<<m, n>>] = Mul(@, w.snorm[<<m, n>>])]))

\* denormalize_coefficients lines 403-410: order m of degree n
DenormalizeOrder(t, n, m) ==
    Let([t EXCEPT !.k[<<m, n>>] = Div(Num((n - 1) * (n - 1) - m * m),
                                      Num((2 * n - 1) * (2 * n - 3)))], LAMBDA u :
        Let(IF m > 0
            THEN Let(Mul(u.snorm[<<m - 1, n>>],
                         Sqrt(Div(Mul(u.j, Num(n - m + 1)), Num(n + m)))), LAMBDA s :
                     [u EXCEPT !.snorm[<<m, n>>] = s,
                               !.c[<<n, m - 1>>] = Mul(@, s),
                               !.cd[<<n, m - 1>>] = Mul(@, s),
                               !.j = Scale])
            ELSE u, LAMBDA w :
            [w EXCEPT !.c[<<m, n>>] = Mul(@, w.snorm[<<m, n>>]),
                      !.cd[<<m, n>>] = Mul(@, w.snorm[<<m, n>>])]))

RECURSIVE DenormalizeOrders(_, _, _)
DenormalizeOrders(t, n, m) ==
    IF m > n THEN t
    ELSE DenormalizeOrders(Let(t, LAMBDA u : DenormalizeOrder(u, n, m)), n, m + 1)

\* denormalize_coefficients lines 399-410: degree n and the degrees after it
RECURSIVE DenormalizeDegrees(_, _, _)
DenormalizeDegrees(t, dims, n) ==
    IF n > dims - 1 THEN t
    ELSE DenormalizeDegrees(
             Let(t, LAMBDA t0 :
                 Let([t0 EXCEPT !.snorm[<<0, n>>] =
                                    Div(Mul(t0.snorm[<<0, n - 1>>], Num(2 * n - 1)), Num(n)),
                                !.j = Num(2)], LAMBDA u : DenormalizeOrders(u, n, 0))),
             dims, n + 1)

\* denormalize_coefficients(): c and cd are multiplied in place and k is
\* filled; denormalized counts the passes over the arrays loaded last
denormalize_coefficients(self) ==
    Let(self, LAMBDA s :
        Let(DenormalizeDegrees([snorm |-> Identity(s.dims), k |-> Zeros(s.dims, s.dims),
                                c |-> s.c, cd |-> s.cd, j |-> Num(2)], s.dims, 1),
            LAMBDA t : [s EXCEPT !.k = t.k, !.c = t.c, !.cd = t.cd,
                                 !.denormalized = @ + 1]))

---------------------------------------------------------------------------
(* WMM: set_date, reset_coefficients and magnetic_field *)

\* an attribute that has not been assigned yet
Unset == 0 - 2^30 - 1

\* a WMM object before __init__ has assigned anything
NewWMM ==
    [date |-> [year |-> Unset, yday |-> Unset], date_dec |-> Unset, wmm_filename |-> "",
     model |-> "", modeldate |-> "", epoch |-> Unset,
     c |-> <<>>, cd |-> <<>>, dims |-> Unset, k |-> <<>>, denormalized |-> 0,
     latitude |-> Unset, longitude |-> Unset, sp |-> <<>>, cp |-> <<>>,
     P |-> <<>>, dP |-> <<>>, gh |-> <<>>,
     X |-> Unset, Y |-> Unset, Z |-> Unset, H |-> Unset, F |-> Unset,
     I |-> Unset, D |-> Unset, GV |-> Unset]

\* a date's year + tm_yday/365.0
DecimalYear(d) == Add(Num(d.year), Div(Num(d.yday), Num(365)))

\* set_date line 386: the calendar date of a decimal date
CalendarDate(date_dec) ==
    Let(date_dec, LAMBDA x :
        fromordinal(RoundHalfEven(
            Add(Num(toordinal([year |-> IntPart(x), yday |-> 1])),
                Mul(Sub(x, Num(IntPart(x))), Num(365))))))

\* set_date lines 381-389: date and date_dec are assigned
AssignDate(self, date, today) ==
    IF date.kind = "None"
    THEN [self EXCEPT !.date = today, !.date_dec = DecimalYear(today)]
    ELSE IF date.kind = "float"
    THEN [self EXCEPT !.date_dec = date.v, !.date = CalendarDate(date.v)]
    ELSE [self EXCEPT !.date = [year |-> date.year, yday |-> date.yday],
                      !.date_dec = DecimalYear(date)]

\* set_date(date), today being datetime.date.today()
set_date(self, date, today) ==
    Let(AssignDate(self, date, today), LAMBDA s :
        IF s.date.year < 2015 THEN [self |-> s, raised |-> "ValueError"]
        ELSE [self |-> [s EXCEPT !.wmm_filename =
                                     IF s.date_dec < Num(2020) THEN WMM2015 ELSE WMM2020],
              raised |-> "none"])

\* reset_coefficients lines 271-274: the properties and the coefficients of
\* self.wmm_filename are loaded, then denormalised; loads counts the calls of
\* load_coefficients
LoadAndDenormalize(self) ==
    Let(<<get_properties(self.wmm_filename), load_coefficients(self.wmm_filename)>>, LAMBDA f :
        IF f[1].raised # "none" THEN [self |-> self, raised |-> f[1].raised, loads |-> 0]
        ELSE IF f[2].raised # "none"
        THEN [self |-> [self EXCEPT !.model = f[1].properties.model,
                                    !.modeldate = f[1].properties.modeldate,
                                    !.epoch = f[1].properties.epoch],
              raised |-> f[2].raised, loads |-> 1]
        ELSE [self |-> denormalize_coefficients(
                           [self EXCEPT !.model = f[1].properties.model,
                                        !.modeldate = f[1].properties.modeldate,
                                        !.epoch = f[1].properties.epoch,
                                        !.c = f[2].c, !.cd = f[2].cd,
                                        !.denormalized = 0,
                                        !.dims = Cardinality({ij \in DOMAIN f[2].c : ij[2] = 0})]),
              raised |-> "none", loads |-> 1])

\* reset_coefficients keeping the arrays it holds when the date selects the
\* file they were loaded from, and denormalising whatever it holds
reset_coefficients_KeepsLoadedSet(self, date, today) ==
    Let(set_date(self, date, today), LAMBDA d :
        IF d.raised # "none" THEN [self |-> d.self, raised |-> d.raised, loads |-> 0]
        ELSE IF d.self.wmm_filename = self.wmm_filename
        THEN [self |-> denormalize_coefficients(d.self), raised |-> "none", loads |-> 0]
        ELSE LoadAndDenormalize(d.self))

\* reset_coefficients(date)
reset_coefficients(self, date, today) ==
    Let(set_date(self, date, today), LAMBDA d :
        IF d.raised # "none" THEN [self |-> d.self, raised |-> d.raised, loads |-> 0]
        ELSE LoadAndDenormalize(d.self))

\* WMM(date): the object, or the exception raised
WMM__init__(date, today) == reset_coefficients(NewWMM, date, today)

\* geodetic2spherical(lat, lon, h), a and b being the radii of the Earth in km
geodetic2spherical(lat, lon, h) ==
    Let([a |-> Ratio(EQUATOR_RADIUS, 1000), b |-> Ratio(POLAR_RADIUS, 1000),
         sin |-> Sin(lat), cos |-> Cos(lat)], LAMBDA p :
        Let(Div(p.a - p.b, p.a), LAMBDA f :
            Let(Mul(f, Sub(Num(2), f)), LAMBDA e2 :
                Let(DivWide(p.a, Sqrt(Sub(Scale, Mul(e2, Sq(p.sin))))), LAMBDA Rc :
                    Let(<<MulWide(Rc + h, p.cos),
                          MulWide(MulWide(Rc, Scale - e2) + h, p.sin)>>, LAMBDA rz :
                        Let(NormWide(rz[1], rz[2]), LAMBDA r :
                            [lat_spheric |-> Arcsin(DivWide(rz[2], r)), lon |-> lon,
                             r |-> r]))))))

\* magnetic_field lines 449-455: sin(m*lon) and cos(m*lon), from order m on
RECURSIVE MultipleAngles(_, _, _)
MultipleAngles(t, dims, m) ==
    IF m > dims - 1 THEN t
    ELSE MultipleAngles(
             Let(t, LAMBDA u :
                 [sp |-> [u.sp EXCEPT ![m] = Add(Mul(u.sp[1], u.cp[m - 1]), Mul(u.cp[1], u.sp[m - 1]))],
                  cp |-> [u.cp EXCEPT ![m] = Sub(Mul(u.cp[1], u.cp[m - 1]), Mul(u.sp[1], u.sp[m - 1]))]]),
             dims, m + 1)

\* x ** n, n >= 1
RECURSIVE Pow(_, _)
Pow(x, n) == IF n = 1 THEN x ELSE Mul(x, Pow(x, n - 1))

\* the step (n, m) reads P[i, j] and dP[i, j]: the reads are added to the
\* log, each with the value read and whether another step has written the
\* entry.  The log is not part of the program.
Read(t, n, m, i, j) ==
    [t EXCEPT !.reads = @ \cup
        { [n |-> n, m |-> m, a |-> a, i |-> i, j |-> j,
           v |-> IF a = "P" THEN t.P[<<i, j>>] ELSE t.dP[<<i, j>>],
           written |-> \E s \in t.wr : s.a = a /\ s.i = i /\ s.j = j /\ <<s.n, s.m>> # <<n, m>>]
          : a \in {"P", "dP"} }]

\* the step (n, m) writes P[i, j] and dP[i, j]
Written(t, n, m, i, j) ==
    [t EXCEPT !.wr = @ \cup { [n |-> n, m |-> m, a |-> a, i |-> i, j |-> j] : a \in {"P", "dP"} }]

\* lines 472-473 reading the entries of the same order in the column before
LegendreDiagonal_FromSameOrder(t, e, n, m) ==
    Let(Read(t, n, m, m, n - 1), LAMBDA u :
        [u EXCEPT !.P[<<m, n>>] = Mul(e.cpr, u.P[<<m, n - 1>>]),
                  !.dP[<<m, n>>] = Add(Mul(e.cpr, u.dP[<<m, n - 1>>]),
                                       Mul(e.spr, u.P[<<m, n - 1>>]))])

\* magnetic_field lines 472-473: the case n = m
LegendreDiagonal(t, e, n, m) ==
    Let(Read(t, n, m, m - 1, n - 1), LAMBDA u :
        [u EXCEPT !.P[<<m, n>>] = Mul(e.cpr, u.P[<<m - 1, n - 1>>]),
                  !.dP[<<m, n>>] = Add(Mul(e.cpr, u.dP[<<m - 1, n - 1>>]),
                                       Mul(e.spr, u.P[<<m - 1, n - 1>>]))])

\* magnetic_field lines 471-482: P[m, n] and dP[m, n] by the recursion.  The
\* entry [m, n] that lines 481-482 update in place is the step's own.
Legendre(t, e, n, m) ==
    IF n = m
    THEN Written(LegendreDiagonal(t, e, n, m), n, m, m, n)
    ELSE Let(Written([Read(t, n, m, m, n - 1) EXCEPT
                         !.P[<<m, n>>] = Mul(e.spr, t.P[<<m, n - 1>>]),
                         !.dP[<<m, n>>] = Sub(Mul(e.spr, t.dP[<<m, n - 1>>]),
                                              Mul(e.cpr, t.P[<<m, n - 1>>]))], n, m, m, n),
             LAMBDA u :
             IF n > 1 /\ n # m
             THEN Let(IF m > n - 2
                      THEN Written([u EXCEPT !.P[<<m, n - 2>>] = 0, !.dP[<<m, n - 2>>] = 0],
                                   n, m, m, n - 2)
                      ELSE u, LAMBDA w :
                      [Read(w, n, m, m, n - 2) EXCEPT
                          !.P[<<m, n>>] = Sub(@, Mul(e.k[<<m, n>>], w.P[<<m, n - 2>>])),
                          !.dP[<<m, n>>] = Sub(@, Mul(e.k[<<m, n>>], w.dP[<<m, n - 2>>]))])
             ELSE u)

\* magnetic_field lines 484-486: the coefficients of degree n and order m at
\* the time dt after the epoch
TimeAdjust(t, e, n, m) ==
    Let([t EXCEPT !.gh[<<m, n>>] = Add(e.c[<<m, n>>], Mul(e.dt, e.cd[<<m, n>>]))], LAMBDA u :
        IF m # 0
        THEN [u EXCEPT !.gh[<<n, m - 1>>] =
                           Add(e.c[<<n, m - 1>>], Mul(e.dt, e.cd[<<n, m - 1>>]))]
        ELSE u)

\* magnetic_field lines 488-500: the term of degree n and order m is added to
\* x_p, y_p and z_p, and at a pole to Bp
Accumulate(t, e, n, m) ==
    Let(<<Mul(t.gh[<<m, n>>], e.trig.cp[m]), Mul(t.gh[<<m, n>>], e.trig.sp[m])>>, LAMBDA g0 :
        Let(IF m # 0
            THEN <<Add(g0[1], Mul(t.gh[<<n, m - 1>>], e.trig.sp[m])),
                   Sub(g0[2], Mul(t.gh[<<n, m - 1>>], e.trig.cp[m]))>>
            ELSE g0, LAMBDA g :
            Let([t EXCEPT !.x_p = Add(@, Mul(g[1], t.dP[<<m, n>>])),
                          !.y_p = Add(@, Mul(Mul(Num(m), g[2]), t.P[<<m, n>>])),
                          !.z_p = Add(@, Mul(g[1], t.P[<<m, n>>]))], LAMBDA u :
                IF e.cpr = 0 /\ m = 1
                THEN Let([u EXCEPT !.Bp = Add(@, Mul(e.arn2, g[2]))], LAMBDA w :
                         IF n # 1
                         THEN [w EXCEPT !.Bp = Mul(@, Sub(e.spr, e.k[<<m, n>>]))]
                         ELSE w)
                ELSE u)))

\* magnetic_field lines 469-500: order m of degree n and the orders after it
RECURSIVE Orders(_, _, _, _)
Orders(t, e, n, m) ==
    IF m > n THEN t
    ELSE Orders(Let(t, LAMBDA t0 :
                    Let(Legendre(t0, e, n, m), LAMBDA t1 :
                        Let(TimeAdjust(t1, e, n, m), LAMBDA t2 : Accumulate(t2, e, n, m)))),
                e, n, m + 1)

\* magnetic_field lines 466-503: degree n and the degrees after it
RECURSIVE Degrees(_, _, _, _)
Degrees(t, e, dims, n) ==
    IF n > dims - 1 THEN t
    ELSE Degrees(
             Let([e EXCEPT !.arn2 = Pow(e.ar, n + 2)], LAMBDA en :
                 Let(Orders([t EXCEPT !.x_p = 0, !.y_p = 0, !.z_p = 0], en, n, 0), LAMBDA u :
                     [u EXCEPT !.Xp = Add(@, Mul(en.arn2, u.x_p)),
                               !.Yp = Add(@, Mul(en.arn2, u.y_p)),
                               !.Zp = Sub(@, Mul(Mul(Num(n + 1), en.arn2), u.z_p))])),
             e, dims, n + 1)

\* line 504 without the case of the poles
Easterly_AlwaysDivides(cpr, Yp, Bp) == Div(Yp, cpr)

\* magnetic_field line 504: the easterly component
Easterly(cpr, Yp, Bp) == IF cpr = 0 THEN Bp ELSE Div(Yp, cpr)

\* the grivation with the parallels of 55 degrees counted as polar
Grivation_From55(D, latitude, longitude) ==
    Let(IF latitude >= Num(55) THEN Sub(D, longitude) ELSE D, LAMBDA GV :
        IF latitude <= Num(-55) THEN Add(GV, longitude) ELSE GV)

\* magnetic_field lines 515-519: the grivation
Grivation(D, latitude, longitude) ==
    Let(IF latitude > Num(55) THEN Sub(D, longitude) ELSE D, LAMBDA GV :
        IF latitude < Num(-55) THEN Add(GV, longitude) ELSE GV)

\* magnetic_field lines 442-519: the field at lat, lon (degrees) and h (km),
\* from the coefficients and the date self holds
Evaluate(self, lat, lon, h) ==
    Let(geodetic2spherical(ToRadians(lat), ToRadians(lon), h), LAMBDA g :
        Let([lat |-> ToRadians(lat), lat_prime |-> g.lat_spheric,
             c |-> self.c, cd |-> self.cd, k |-> self.k,
             trig |-> MultipleAngles(
                          [sp |-> [m \in 0..(self.dims - 1) |-> IF m = 1 THEN Sin(g.lon) ELSE 0],
                           cp |-> [m \in 0..self.dims |-> IF m = 1 THEN Cos(g.lon) ELSE Scale]],
                          self.dims, 2),
             dt |-> Sub(Round1(self.date_dec), self.epoch),
             ar |-> DivWide(Ratio(MEAN_EARTH_RADIUS, 1000), g.r),
             cpr |-> Cos(g.lat_spheric), spr |-> Sin(g.lat_spheric), arn2 |-> 0], LAMBDA e :
            Let(Degrees([P |-> Identity(self.dims + 1), dP |-> Zeros(self.dims + 1, self.dims),
                         gh |-> Zeros(self.dims + 1, self.dims),
                         x_p |-> 0, y_p |-> 0, z_p |-> 0,
                         Xp |-> 0, Yp |-> 0, Zp |-> 0, Bp |-> 0,
                         reads |-> {}, wr |-> {}], e, self.dims, 1), LAMBDA t :
                Let([X |-> Sub(Mul(t.Xp, Cos(e.lat_prime - e.lat)), Mul(t.Zp, Sin(e.lat_prime - e.lat))),
                     Y |-> Easterly(e.cpr, t.Yp, t.Bp),
                     Z |-> Add(Mul(t.Xp, Sin(e.lat_prime - e.lat)), Mul(t.Zp, Cos(e.lat_prime - e.lat)))],
                    LAMBDA v :
                    Let(Norm(<<v.X, v.Y>>), LAMBDA H :
                        Let(Mul(RAD2DEG, Arctan2(v.Y, v.X)), LAMBDA D :
                            [self |-> [self EXCEPT !.latitude = lat, !.longitude = lon,
                                                   !.sp = e.trig.sp, !.cp = e.trig.cp,
                                                   !.P = t.P, !.dP = t.dP, !.gh = t.gh,
                                                   !.X = v.X, !.Y = v.Y, !.Z = v.Z,
                                                   !.H = H, !.F = Norm(<<H, v.Z>>),
                                                   !.I = Mul(RAD2DEG, Arctan2(v.Z, H)),
                                                   !.D = D,
                                                   !.GV = Grivation(D, lat, lon)],
                             raised |-> "none", cpr |-> e.cpr, Yp |-> t.Yp, Bp |-> t.Bp,
                             reads |-> t.reads]))))))

\* magnetic_field resetting the coefficients, and the date, only when the
\* date selects another file than the one loaded
magnetic_field_ResetsOnEpochChange(self, lat, lon, h, date) ==
    Let(IF date.kind # "None"
           /\ set_date(self, date, <<>>).self.wmm_filename # self.wmm_filename
        THEN reset_coefficients(self, date, <<>>)
        ELSE [self |-> self, raised |-> "none", loads |-> 0], LAMBDA r :
        IF r.raised # "none"
        THEN [self |-> r.self, raised |-> r.raised, loads |-> r.loads,
              cpr |-> Unset, Yp |-> Unset, Bp |-> Unset, reads |-> {}]
        ELSE Let(Evaluate(r.self, lat, lon, h), LAMBDA v :
                 [self |-> v.self, raised |-> v.raised, loads |-> r.loads,
                  cpr |-> v.cpr, Yp |-> v.Yp, Bp |-> v.Bp, reads |-> v.reads]))

\* magnetic_field(lat, lon, h, date)
magnetic_field(self, lat, lon, h, date) ==
    Let(IF date.kind # "None" THEN reset_coefficients(self, date, <<>>)
        ELSE [self |-> self, raised |-> "none", loads |-> 0], LAMBDA r :
        IF r.raised # "none"
        THEN [self |-> r.self, raised |-> r.raised, loads |-> r.loads,
              cpr |-> Unset, Yp |-> Unset, Bp |-> Unset, reads |-> {}]
        ELSE Let(Evaluate(r.self, lat, lon, h), LAMBDA v :
                 [self |-> v.self, raised |-> v.raised, loads |-> r.loads,
                  cpr |-> v.cpr, Yp |-> v.Yp, Bp |-> v.Bp, reads |-> v.reads]))

---------------------------------------------------------------------------
(* Inputs *)

\* the two estimation sessions (callers), each with arrays of its own; session
\* s of a Mahony run drives the Mahony object s
Sessions == {1, 2}

\* gyroscope, accelerometer and magnetometer samples
GyrIn == { Zero3, <<0, 0, Scale>> }

\* the samples of a Mahony call: one gyroscope reading; a missing and a
\* non-unit accelerometer and magnetometer reading
MahonyGyrIn == { <<0, 0, Scale>> }

MahonyAccIn == { Zero3, <<2 * Scale, 0, 0>> }

\* accelerometer and magnetometer samples of a MARG call: at most one missing
MahonyMargIn ==
    { <<Zero3, <<Scale, 0, Scale>>>>, <<<<2 * Scale, 0, 0>>, Zero3>>,
      <<<<2 * Scale, 0, 0>>, <<Scale, 0, Scale>>>> }

AccIn == { Zero3, <<0, 0, 2 * Scale>>, <<Scale, 0, 0>> }

MagIn == { Zero3, <<Scale, 0, Scale>> }

\* sensor arrays of a batch run: 1 to MaxSamples rows
Arrays(rows) == UNION { [1..n -> rows] : n \in 1..MaxSamples }

BatchGyrIn == { <<0, 0, Scale>> }

BatchMagIn == { <<Scale, 0, Scale>> }

\* the seed quaternion of a batch run, computed by ahrs.common.orientation
\* from the first samples: some unit quaternion
SeedIn == { <<Scale, 0, 0, 0>>, <<0, Scale, 0, 0>> }

\* the quaternion a session starts from
QIn == { <<Scale, 0, 0, 0>>, <<2 * Scale, 0, 0, 0>>, <<0, Scale, 0, 0>> }

MahonyQIn == { <<0, 2 * Scale, 0, 0>> }

\* no keyword arguments
NoKw == [k \in {} |-> 0]

\* keyword arguments of Mahony(...) and of an update call
CtorKw == << NoKw, [Kp |-> 2 * Scale, Ki |-> Scale] >>

UpdateKw == << NoKw, [Ki |-> 0], [Ki |-> Half, samplePeriod |-> Scale \div 128] >>

\* arguments of prod: every 4-vector with components -1, 0, 1
ProdIn == [1..4 -> {-Scale, 0, Scale}]

\* arguments of Quaternion(...): None (the empty tuple), 3-vectors, and the
\* 4-vectors of ProdIn with no, one or four non-zero components
QuatIn ==
    { <<>>, Zero3, <<Scale, 0, 0>>, <<0, 2 * Scale, 0>>, <<0, 0, -Scale>> }
    \cup { v \in ProdIn : Cardinality({i \in 1..4 : v[i] # 0}) \in {0, 1, 4} }

\* datetime.date.today() on the day of a call that passes no date
TodayIn == { [year |-> 2019, yday |-> 364], [year |-> 2021, yday |-> 100] }

TodayFor(date) == IF date.kind = "None" THEN TodayIn ELSE { <<>> }

\* date arguments: 2014.5, 2014.999, 31 Dec 2014, 2017 (an int), 31 Dec 2019,
\* 2019.999, 2020.37, 31 Dec 2024, and None
WMMDateIn ==
    { Float(Num(2014) + Half), Float(Num(2015) - 1), Date(2014, 365), Float(Num(2017)),
      Date(2019, 365), Float(Num(2020) - 1), Float(Num(2020) + 379), Date(2024, 366), None }

\* the date arguments of the runs that vary the place: one per epoch, and None
FieldDateIn == { Float(Num(2017)), Float(Num(2020) + 379), None }

\* latitudes and longitudes in degrees, heights in km
LatIn == { Num(90), Num(60), Num(55), Num(10), Num(-55), Num(-60) }

LonIn == { Num(-20) }

HIn == { 0, Num(2) }

\* the place of the runs that vary the date
OneLatIn == { Num(60) }

\* the file names handed to get_properties and load_coefficients
FileIn ==
    { WMM2015, WMM2020, NotCOF, LowerCOF, WideCOF, ZonalCOF, ShortCOF, RaggedCOF,
      DescendingCOF, OneRowCOF }


---------------------------------------------------------------------------
(* State *)

NoCall ==
    [op |-> "none", s |-> 0, q |-> <<>>, g |-> <<>>, a |-> <<>>, m |-> <<>>,
     kwargs |-> NoKw, dict |-> NoKw, eInt |-> <<>>, ret |-> "none", updates |-> 0]

\* Quaternion(v): the object
NewQuaternion(v) ==
    [_q |-> Quaternion__init__(v), op |-> "__init__", selfIn |-> <<>>, arg |-> <<>>,
     argIn |-> v, out |-> <<>>, angle |-> 0, raised |-> "none"]

\* the parts of the state a run of one component leaves alone
IdleFilters ==
    /\ arr = [s \in Sessions |-> [q |-> <<Scale, 0, 0, 0>>, g |-> Zero3, a |-> Zero3, m |-> Zero3]]
    /\ last = NoCall
    /\ calls = 0

IdleMadgwick == mself = Madgwick__init__(NoKw, <<Scale, 0, 0, 0>>).self

IdleMahony ==
    /\ klass = Mahony__dict__
    /\ inst = [o \in Sessions |-> [made |-> FALSE, eInt |-> Zero3, kwargs |-> NoKw]]

IdleQuaternion == quat = NewQuaternion(<<>>)

\* the record of a call on the WMM object: the operation and its arguments,
\* the exception raised, the calls of load_coefficients it made, and for an
\* evaluation the values of cpr, Yp and Bp before line 504 and the entries of
\* P and dP the recursion read; for a call of
\* get_properties or load_coefficients the file name, what was returned and
\* whether the file was opened
NoWMMCall ==
    [op |-> "none", date |-> None, lat |-> Unset, lon |-> Unset, h |-> Unset,
     raised |-> "none", loads |-> 0, cpr |-> Unset, Yp |-> Unset, Bp |-> Unset,
     file |-> "", ret |-> <<>>, opened |-> FALSE, reads |-> {}]

\* no WMM object has been constructed
IdleWMM == wmm = [self |-> NewWMM, call |-> NoWMMCall]

\* each session holds a quaternion array and has passed no sample yet
InitSessions(Q0) ==
    /\ \E q0 \in Q0 :
          arr = [s \in Sessions |-> [q |-> q0, g |-> Zero3, a |-> Zero3, m |-> Zero3]]
    /\ last = NoCall
    /\ calls = 0

Init == InitSessions(QIn) /\ IdleMadgwick /\ IdleMahony /\ IdleQuaternion /\ IdleWMM

InitMahony == InitSessions(MahonyQIn) /\ IdleMadgwick /\ IdleMahony /\ IdleQuaternion /\ IdleWMM

InitIdle == IdleFilters /\ IdleMadgwick /\ IdleMahony /\ IdleQuaternion /\ IdleWMM

\* a WMM object has been constructed for a date the constructor accepts
Constructed(Dates) ==
    /\ IdleFilters /\ IdleMadgwick /\ IdleMahony /\ IdleQuaternion
    /\ \E date \in Dates :
          \E today \in TodayFor(date) :
              \E r \in {WMM__init__(date, today)} :
                  /\ r.raised = "none"
                  /\ wmm = [self |-> r.self,
                            call |-> [NoWMMCall EXCEPT !.op = "__init__", !.date = date,
                                                       !.loads = r.loads]]

InitWMM == Constructed(WMMDateIn)

InitWMMField == Constructed(FieldDateIn)

InitWMMLoad == Constructed(FieldDateIn)

---------------------------------------------------------------------------
(* Madgwick: a session calls the update operations on its quaternion array *)

MadgwickUpdateIMU(s) ==
    /\ calls < MaxCalls
    /\ \E gyr \in GyrIn, acc \in AccIn :
          \E q \in {arr[s].q} :
              /\ arr' = [arr EXCEPT ![s] = [q |-> Madgwick_updateIMU(mself, q, gyr, acc),
                                            g |-> gyr, a |-> acc, m |-> @.m]]
              /\ last' = [NoCall EXCEPT !.op = "Madgwick.updateIMU", !.s = s, !.q = q,
                                        !.g = gyr, !.a = acc, !.ret = "q"]
    /\ calls' = calls + 1
    /\ UNCHANGED <<mself, klass, inst, quat, wmm>>

MadgwickUpdateMARG(s) ==
    /\ calls < MaxCalls
    /\ \E gyr \in GyrIn, acc \in AccIn, mag \in MagIn :
          \E q \in {arr[s].q} :
              /\ arr' = [arr EXCEPT ![s] = [q |-> Madgwick_updateMARG(mself, q, gyr, acc, mag),
                                            g |-> gyr, a |-> acc, m |-> mag]]
              /\ last' = [NoCall EXCEPT !.op = "Madgwick.updateMARG", !.s = s, !.q = q,
                                        !.g = gyr, !.a = acc, !.m = mag, !.ret = "q"]
    /\ calls' = calls + 1
    /\ UNCHANGED <<mself, klass, inst, quat, wmm>>

\* Madgwick(acc=..., gyr=...) or Madgwick(acc=..., gyr=..., mag=...), the one
\* construction of a batch run
MadgwickNew ==
    /\ last.op = "none"
    /\ \E acc \in Arrays(AccIn), gyr \in Arrays(BatchGyrIn),
          mag \in {NoArray} \cup Arrays(BatchMagIn), q0 \in SeedIn :
          \E kwargs \in { IF mag = NoArray THEN [acc |-> acc, gyr |-> gyr]
                          ELSE [acc |-> acc, gyr |-> gyr, mag |-> mag] } :
          \E r \in {Madgwick__init__(kwargs, q0)} :
              /\ mself' = r.self
              /\ last' = [NoCall EXCEPT !.op = "Madgwick.__init__", !.kwargs = kwargs,
                                        !.q = q0, !.updates = r.updates,
                                        !.ret = IF r.raised = "none" THEN "self" ELSE r.raised]
    /\ UNCHANGED <<arr, calls, klass, inst, quat, wmm>>

---------------------------------------------------------------------------
(* Mahony: objects are constructed, and session s calls object s *)

Mahony__init__(o) ==
    /\ ~inst[o].made
    /\ \E i \in DOMAIN CtorKw :
          /\ inst' = [inst EXCEPT ![o] = [made |-> TRUE, eInt |-> Zero3, kwargs |-> CtorKw[i]]]
          /\ klass' = DictUpdate(self__dict__(o), CtorKw[i])
          /\ last' = [NoCall EXCEPT !.op = "Mahony.__init__", !.s = o, !.kwargs = CtorKw[i]]
    /\ UNCHANGED <<arr, calls, mself, quat, wmm>>

MahonyUpdateIMU(o) ==
    /\ inst[o].made
    /\ calls < MaxCalls
    /\ \E g \in MahonyGyrIn, a \in MahonyAccIn, i \in DOMAIN UpdateKw :
          \E q \in {arr[o].q} :
          \E r \in {Mahony_updateIMU(inst[o].eInt, self__dict__(o), g, a, q, UpdateKw[i])} :
              /\ arr' = [arr EXCEPT ![o] = [q |-> r.q, g |-> r.g, a |-> r.a, m |-> @.m]]
              /\ inst' = [inst EXCEPT ![o].eInt = r.eInt]
              /\ last' = [op |-> "Mahony.updateIMU", s |-> o, q |-> q, g |-> g, a |-> a,
                          m |-> <<>>, kwargs |-> UpdateKw[i], dict |-> self__dict__(o),
                          eInt |-> inst[o].eInt, ret |-> "q", updates |-> 0]
    /\ calls' = calls + 1
    /\ UNCHANGED <<mself, klass, quat, wmm>>

MahonyUpdateMARG(o) ==
    /\ inst[o].made
    /\ calls < MaxCalls
    /\ \E g \in MahonyGyrIn, am \in MahonyMargIn, i \in DOMAIN UpdateKw :
          \E a \in {am[1]}, m \in {am[2]}, q \in {arr[o].q} :
          \E r \in {Mahony_updateMARG(inst[o].eInt, self__dict__(o), g, a, m, q, UpdateKw[i])} :
              /\ arr' = [arr EXCEPT ![o] = [q |-> r.q, g |-> r.g, a |-> r.a, m |-> r.m]]
              /\ inst' = [inst EXCEPT ![o].eInt = r.eInt]
              /\ last' = [op |-> "Mahony.updateMARG", s |-> o, q |-> q, g |-> g, a |-> a,
                          m |-> m, kwargs |-> UpdateKw[i], dict |-> self__dict__(o),
                          eInt |-> inst[o].eInt, ret |-> "q", updates |-> 0]
    /\ calls' = calls + 1
    /\ UNCHANGED <<mself, klass, quat, wmm>>

---------------------------------------------------------------------------
(* Quaternion *)

QuaternionNew ==
    /\ \E v \in QuatIn : quat' = NewQuaternion(v)
    /\ UNCHANGED <<arr, last, calls, mself, klass, inst, wmm>>

QuaternionProd ==
    /\ \E q \in ProdIn :
          quat' = [quat EXCEPT !.op = "prod", !.selfIn = quat._q, !.argIn = q, !.arg = q,
                               !.angle = 0,
                               !.out = Quaternion_prod(quat._q, q)]
    /\ UNCHANGED <<arr, last, calls, mself, klass, inst, wmm>>

QuaternionConj ==
    /\ quat' = [quat EXCEPT !.op = "conj", !.selfIn = quat._q, !.argIn = <<>>, !.arg = <<>>,
                            !.out = Quaternion_conj(quat._q), !.angle = 0]
    /\ UNCHANGED <<arr, last, calls, mself, klass, inst, wmm>>

QuaternionToAxang ==
    /\ \E r \in {Quaternion_to_axang(quat._q)} :
          quat' = [quat EXCEPT !.op = "to_axang", !.selfIn = quat._q, !.argIn = <<>>,
                               !.arg = <<>>, !.out = r.axis, !.angle = r.angle]
    /\ UNCHANGED <<arr, last, calls, mself, klass, inst, wmm>>

---------------------------------------------------------------------------
(* WMM: an object is constructed, reset and evaluated *)

\* w = WMM(date): w is bound only when the constructor returns
WMMNew(Dates) ==
    /\ calls < MaxCalls
    /\ \E date \in Dates :
          \E today \in TodayFor(date) :
              \E r \in {WMM__init__(date, today)} :
                  wmm' = [self |-> IF r.raised = "none" THEN r.self ELSE wmm.self,
                          call |-> [NoWMMCall EXCEPT !.op = "__init__", !.date = date,
                                                     !.raised = r.raised, !.loads = r.loads]]
    /\ calls' = calls + 1
    /\ UNCHANGED <<arr, last, mself, klass, inst, quat>>

WMMReset(Dates) ==
    /\ calls < MaxCalls
    /\ wmm.call.op # "none"
    /\ \E date \in Dates :
          \E today \in TodayFor(date) :
              \E r \in {reset_coefficients(wmm.self, date, today)} :
                  wmm' = [self |-> r.self,
                          call |-> [NoWMMCall EXCEPT !.op = "reset_coefficients",
                                                     !.date = date, !.raised = r.raised,
                                                     !.loads = r.loads]]
    /\ calls' = calls + 1
    /\ UNCHANGED <<arr, last, mself, klass, inst, quat>>

WMMField(Lats, Dates) ==
    /\ calls < MaxCalls
    /\ wmm.call.op # "none"
    /\ \E lat \in Lats, lon \in LonIn, h \in HIn, date \in Dates :
          \E r \in {magnetic_field(wmm.self, lat, lon, h, date)} :
              wmm' = [self |-> r.self,
                      call |-> [NoWMMCall EXCEPT
                                   !.op = "magnetic_field", !.date = date, !.lat = lat,
                                   !.lon = lon, !.h = h, !.raised = r.raised,
                                   !.loads = r.loads,
                                   !.cpr = r.cpr, !.Yp = r.Yp, !.Bp = r.Bp,
                                   !.reads = r.reads]]
    /\ calls' = calls + 1
    /\ UNCHANGED <<arr, last, mself, klass, inst, quat>>

\* w.get_properties(cof_file): the object is not changed
WMMGetProperties(Files) ==
    /\ calls < MaxCalls
    /\ wmm.call.op # "none"
    /\ \E cof_file \in Files :
          \E r \in {get_properties(cof_file)} :
              wmm' = [wmm EXCEPT !.call =
                         [NoWMMCall EXCEPT !.op = "get_properties", !.file = cof_file,
                                           !.raised = r.raised, !.ret = r.properties,
                                           !.opened = r.opened]]
    /\ calls' = calls + 1
    /\ UNCHANGED <<arr, last, mself, klass, inst, quat>>

\* w.load_coefficients(cof_file): the object is not changed
WMMLoadCoefficients(Files) ==
    /\ calls < MaxCalls
    /\ wmm.call.op # "none"
    /\ \E cof_file \in Files :
          \E r \in {load_coefficients(cof_file)} :
              wmm' = [wmm EXCEPT !.call =
                         [NoWMMCall EXCEPT !.op = "load_coefficients", !.file = cof_file,
                                           !.raised = r.raised,
                                           !.ret = IF r.raised = "none"
                                                   THEN <<r.c, r.cd>> ELSE <<>>,
                                           !.opened = r.opened,
                                           !.loads = 1]]
    /\ calls' = calls + 1
    /\ UNCHANGED <<arr, last, mself, klass, inst, quat>>

---------------------------------------------------------------------------
(* Specifications *)

NextMadgwick == \E s \in {1} : MadgwickUpdateIMU(s) \/ MadgwickUpdateMARG(s)

NextMahony == \E o \in Sessions : Mahony__init__(o) \/ MahonyUpdateIMU(o) \/ MahonyUpdateMARG(o)

NextQuaternion == QuaternionNew \/ QuaternionProd \/ QuaternionConj \/ QuaternionToAxang

NextBatch == MadgwickNew

NextWMM == WMMNew(WMMDateIn) \/ WMMReset(WMMDateIn) \/ WMMField(OneLatIn, WMMDateIn)

NextWMMField == WMMNew(FieldDateIn) \/ WMMReset(FieldDateIn) \/ WMMField(LatIn, FieldDateIn)

NextWMMLoad ==
    WMMReset(FieldDateIn) \/ WMMGetProperties(FileIn) \/ WMMLoadCoefficients(FileIn)

Next ==
    \/ NextMadgwick \/ NextBatch \/ NextMahony \/ NextQuaternion
    \/ NextWMM \/ NextWMMField \/ NextWMMLoad

Spec == Init /\ [][Next]_vars

\* a Madgwick estimation session
SpecMadgwick == Init /\ [][NextMadgwick]_vars

\* two Mahony objects, each driven by a session of its own
SpecMahony == InitMahony /\ [][NextMahony]_vars

\* a Quaternion object
SpecQuaternion == InitIdle /\ [][NextQuaternion]_vars

\* Madgwick objects constructed with sensor arrays
SpecBatch == InitIdle /\ [][NextBatch]_vars

\* a WMM object and the calls made on it, over the dates
SpecWMM == InitWMM /\ [][NextWMM]_vars

\* a WMM object and the calls made on it, over the places
SpecWMMField == InitWMMField /\ [][NextWMMField]_vars

\* a WMM object, and files handed to its two reading methods
SpecWMMLoad == InitWMMLoad /\ [][NextWMMLoad]_vars

---------------------------------------------------------------------------
(* Properties of the update operations *)

MadgwickOps == {"Madgwick.updateIMU", "Madgwick.updateMARG"}

MahonyOps == {"Mahony.updateIMU", "Mahony.updateMARG"}

MargOps == {"Madgwick.updateMARG", "Mahony.updateMARG"}

\* the call c was passed a zero-norm accelerometer sample or, for a MARG
\* update, a zero-norm magnetometer sample
Degenerate(c) == Norm(c.a) = 0 \/ (c.op \in MargOps /\ Norm(c.m) = 0)

\* the contents of the caller's quaternion array after the last call
QNow == arr[last.s].q

\* C1: a Madgwick update (IMU with a zero-norm accelerometer sample, MARG with
\* a zero-norm accelerometer or magnetometer sample) returns the array it was
\* passed, every component as it was passed in, and raises nothing.
C1_MadgwickZeroNormHolds ==
    (last.op \in MadgwickOps /\ Degenerate(last)) => (last.ret = "q" /\ QNow = last.q)

\* a zero-norm accelerometer sample was passed with a quaternion that is not
\* of unit norm, and the quaternion came back as it was
C1_Witness ==
    /\ last.op = "Madgwick.updateIMU"
    /\ Norm(last.a) = 0
    /\ ~IsUnit(last.q)
    /\ QNow = last.q

\* the integral gain the call c used: the keyword argument of the call, else
\* the gain stored in self.__dict__
EffectiveKi(c) == ReadParam(c.dict, c.kwargs, "Ki")

\* self.eInt of the object of the last call
EIntNow == inst[last.s].eInt

\* C2, as claimed: after any Mahony update whose effective Ki is <= 0, eInt is
\* the zero vector, also when the call returned early on a zero-norm sample.
C2_ResetOnEveryCall ==
    (last.op \in MahonyOps /\ EffectiveKi(last) <= 0) => EIntNow = Zero3

\* C2, amended: after a Mahony update with non-degenerate samples whose
\* effective Ki is <= 0, eInt is the zero vector; after a Mahony update that
\* returned early on a zero-norm sample, eInt is what it was before the call.
C2_ResetUnlessDegenerate ==
    last.op \in MahonyOps =>
        /\ (~Degenerate(last) /\ EffectiveKi(last) <= 0) => EIntNow = Zero3
        /\ Degenerate(last) => EIntNow = last.eInt

\* a non-degenerate call with Ki <= 0 cleared an accumulator that was not zero
C2_Witness ==
    /\ last.op \in MahonyOps
    /\ EffectiveKi(last) <= 0
    /\ ~Degenerate(last)
    /\ last.eInt # Zero3
    /\ EIntNow = Zero3

\* C3: two Mahony objects share no mutable state: a step that constructs or
\* updates one object leaves the gains (self.__dict__: Kp, Ki, samplePeriod)
\* that the updates of the other, already constructed, object read, and the
\* other object's eInt, as they were.
C3_NoSharedState ==
    [][\A o \in Sessions :
          (inst[o].made /\ last'.s # o) =>
              (self__dict__(o)' = self__dict__(o) /\ inst'[o].eInt = inst[o].eInt)]_vars

UpdateOps == MadgwickOps \cup MahonyOps

\* C4: an update only reads the previous quaternion: after an update with a
\* non-degenerate sample the caller's array holds what it held before the
\* call, and what is returned is not that array.
C4_OnlyReadsQPrev ==
    (last.op \in UpdateOps /\ ~Degenerate(last)) => (QNow = last.q /\ last.ret # "q")

\* C5: Madgwick.updateIMU with a zero gyroscope sample, a unit quaternion and
\* an accelerometer sample along the gravity direction the quaternion
\* predicts (objective f = 0) returns the quaternion it was passed, every
\* component finite.
C5_AlignedSampleKeepsQ ==
    (/\ last.op = "Madgwick.updateIMU"
     /\ last.g = Zero3
     /\ ~Degenerate(last)
     /\ Normalized(last.q) = last.q
     /\ IMU_f(last.q, Normalized(last.a)) = Zero3)
        => (~HasNaN(QNow) /\ QNow = last.q)

\* the orientation error e of the Mahony call c, from its arguments
ErrorOf(c) ==
    IF c.op = "Mahony.updateIMU" THEN IMU_e(Normalized(c.q), Normalized(c.a))
    ELSE MARG_e(c.q, Normalized(c.a), Normalized(c.m))

\* the sample period the Mahony call c used
EffectivePeriod(c) == ReadParam(c.dict, c.kwargs, "samplePeriod")

\* C6: a Mahony update of an object with effective Ki > 0 and non-degenerate
\* samples, IMU or MARG, sets the object's eInt to its previous eInt plus
\* e*samplePeriod, e being that call's orientation error; every step that is
\* not an update of the object leaves its eInt as it was.  So eInt after k
\* such updates is eInt before them plus the sum of the k terms.
C6_EIntAccumulates ==
    [][\A o \in Sessions :
          inst[o].made =>
              inst'[o].eInt =
                  IF last'.s = o /\ calls' # calls
                  THEN IF EffectiveKi(last') > 0 /\ ~Degenerate(last')
                       THEN VAdd(inst[o].eInt, VMul(ErrorOf(last'), EffectivePeriod(last')))
                       ELSE inst'[o].eInt
                  ELSE inst[o].eInt]_vars

\* a second accumulating update: eInt was not zero before the call and the
\* call added a non-zero term to it
C6_Witness ==
    /\ last.op = "Mahony.updateMARG"
    /\ calls = 2
    /\ EffectiveKi(last) > 0
    /\ ~Degenerate(last)
    /\ last.eInt # Zero3
    /\ EIntNow # last.eInt
    /\ EIntNow = VAdd(last.eInt, VMul(ErrorOf(last), EffectivePeriod(last)))

\* C7: a Mahony update (IMU with a zero-norm accelerometer sample, MARG with a
\* zero-norm accelerometer or magnetometer sample) returns the array it was
\* passed with every component unchanged, and raises nothing.
C7_MahonyZeroNormHolds ==
    (last.op \in MahonyOps /\ Degenerate(last)) => (last.ret = "q" /\ QNow = last.q)

\* a MARG update with a non-zero accelerometer and a zero-norm magnetometer
\* sample gave back a quaternion that is not of unit norm as it was
C7_Witness ==
    /\ last.op = "Mahony.updateMARG"
    /\ Norm(last.a) # 0
    /\ Norm(last.m) = 0
    /\ ~IsUnit(last.q)
    /\ QNow = last.q

\* C8: the quaternion an update returns has unit norm, for each of the four
\* update operations and on every path, the previous quaternion being of
\* unit norm.
C8_ReturnsUnitNorm ==
    (last.op \in UpdateOps /\ IsUnit(last.q)) => IsUnit(QNow)

\* C28: Mahony.updateIMU and Mahony.updateMARG leave the caller's sample
\* arrays g, a and m as they were passed, on every path, the early returns on
\* a zero-norm sample included
C28_SamplesUnchanged ==
    last.op \in MahonyOps
    => /\ arr[last.s].g = last.g
       /\ arr[last.s].a = last.a
       /\ last.op = "Mahony.updateMARG" => arr[last.s].m = last.m

---------------------------------------------------------------------------
(* Properties of the batch constructor *)

\* the last call constructed a Madgwick object with a gyr array, or a mag
\* array, whose shape differs from that of the acc array
ShapeMismatch ==
    /\ last.op = "Madgwick.__init__"
    /\ \/ Shape(last.kwargs.gyr) # Shape(last.kwargs.acc)
       \/ /\ "mag" \in DOMAIN last.kwargs
          /\ Shape(last.kwargs.mag) # Shape(last.kwargs.acc)

\* C9: constructing a Madgwick object with arrays whose shapes differ (gyr
\* from acc, or mag from acc) raises ValueError before any update call is
\* made, and no Q is stored on the object.
C9_ShapeMismatchRaises ==
    ShapeMismatch => (last.ret = "ValueError" /\ last.updates = 0 /\ ~mself.hasQ)

\* acc and gyr of two rows each and a mag array of three rows: ValueError
C9_Witness ==
    /\ last.op = "Madgwick.__init__"
    /\ "mag" \in DOMAIN last.kwargs
    /\ Len(last.kwargs.acc) = 2
    /\ Len(last.kwargs.gyr) = 2
    /\ Len(last.kwargs.mag) = 3
    /\ last.ret = "ValueError"
    /\ ~mself.hasQ

\* the keyword arrays of a construction, cut to their first n samples
FirstSamples(kwargs, n) == [k \in DOMAIN kwargs |-> SubSeq(kwargs[k], 1, n)]

\* C26: after a batch run over N >= 2 samples row 0 of the array returned
\* still equals the seed quaternion, and computing row t changes no earlier
\* row: the rows before t are those of the run over the samples before t
C26_EarlierRowsKept ==
    last.op = "Madgwick.__init__" /\ last.ret = "self" /\ mself.hasQ /\ Len(mself.Q) >= 2
    => /\ mself.Q[1] = last.q
       /\ \A t \in 2..Len(mself.Q) :
             \A i \in 1..(t - 1) :
                 Madgwick__init__(FirstSamples(last.kwargs, t - 1), last.q).self.Q[i]
                     = mself.Q[i]

---------------------------------------------------------------------------
(* Properties of Quaternion *)

\* C10: prod returns the Hamilton product p*q of the receiver p and the
\* argument q (so i*j = k and j*i = -k) and leaves both operands unchanged.
C10_ProdIsHamilton ==
    quat.op = "prod" =>
        /\ quat.out = HamiltonOf(quat.selfIn, quat.argIn)
        /\ quat._q = quat.selfIn
        /\ quat.arg = quat.argIn

\* the vector part (x, y, z) of a quaternion
VectorPart(q) == <<q[2], q[3], q[4]>>

\* C11: conj returns the conjugate (w, -x, -y, -z) of the receiver: four
\* components, the scalar part kept and the vector part negated (so that the
\* conjugate of the conjugate is the receiver).
C11_ConjIsConjugate ==
    quat.op = "conj" =>
        quat.out = << quat.selfIn[1], Neg(quat.selfIn[2]), Neg(quat.selfIn[3]),
                      Neg(quat.selfIn[4]) >>

\* the argument of Quaternion(...) is an array of zeros
ZeroInput(v) == Len(v) > 0 /\ \A i \in DOMAIN v : v[i] = 0

\* C12: constructing a Quaternion from a zero 4-vector or 3-vector reports an
\* error instead of producing a quaternion; from any other input it produces
\* a quaternion of unit norm and reports nothing.
C12_ZeroNormIsAnError ==
    quat.op = "__init__" =>
        IF ZeroInput(quat.argIn) THEN quat.raised # "none"
        ELSE quat.raised = "none" /\ IsUnit(quat._q)

\* C13: to_axang raises nothing; the angle is zero exactly when the vector
\* part is zero and w > 0, and the axis is then the zero vector; for every
\* other quaternion the axis is the vector part divided by its norm.
C13_AxisOfZeroAngle ==
    quat.op = "to_axang" =>
        /\ quat.raised = "none"
        /\ (quat.angle = 0) <=> (VectorPart(quat.selfIn) = Zero3 /\ quat.selfIn[1] > 0)
        /\ quat.out = IF VectorPart(quat.selfIn) = Zero3 /\ quat.selfIn[1] > 0 THEN Zero3
                      ELSE VDiv(VectorPart(quat.selfIn), Norm(VectorPart(quat.selfIn)))

\* to_axang of the identity quaternion gave the zero axis
C13_Witness ==
    /\ quat.op = "to_axang"
    /\ quat.selfIn = <<Scale, 0, 0, 0>>
    /\ quat.angle = 0
    /\ quat.out = Zero3

\* C29: to_axang never divides by a zero norm: for every quaternion whose
\* vector part is zero, with w > 0 or with w < 0, the axis returned is the
\* zero vector and holds no NaN
C29_NoDivisionByZeroNorm ==
    quat.op = "to_axang" /\ VectorPart(quat.selfIn) = Zero3
    /\ quat.selfIn[1] # NaN /\ quat.selfIn[1] # 0
    => quat.out = Zero3 /\ \A i \in DOMAIN quat.out : quat.out[i] # NaN

---------------------------------------------------------------------------
(* Properties of WMM *)

\* the operations that take a date
WMMOps == {"__init__", "reset_coefficients", "magnetic_field"}

\* a call has just been made on the WMM object
WMMCalled == calls' = calls + 1 /\ wmm'.call.op \in WMMOps

\* a field evaluation has just completed
Evaluated == wmm.call.op = "magnetic_field" /\ wmm.call.raised = "none"

\* the field elements an evaluation assigns
FieldOf(self) ==
    [X |-> self.X, Y |-> self.Y, Z |-> self.Z, H |-> self.H, F |-> self.F,
     I |-> self.I, D |-> self.D, GV |-> self.GV]

\* a date argument that precedes 2015.0
Precedes2015(date) ==
    \/ date.kind = "float" /\ date.v < Num(2015)
    \/ date.kind = "date" /\ date.year < 2015

\* C14: WMM(), reset_coefficients and magnetic_field called with a date that
\* precedes 2015.0, calendar or decimal, raise ValueError; the call loads no
\* coefficient file and leaves the field elements X..GV as they were.
C14_DatesBefore2015Rejected ==
    [][(WMMCalled /\ Precedes2015(wmm'.call.date)) =>
           /\ wmm'.call.raised = "ValueError"
           /\ wmm'.call.loads = 0
           /\ FieldOf(wmm'.self) = FieldOf(wmm.self)]_vars

\* the calendar year a date argument lies in
YearOf(date) == IF date.kind = "float" THEN IntPart(date.v) ELSE date.year

\* C15: a call that accepts a date of the years 2015 to 2024 selects the file
\* of the epoch that covers it: the 2015 set for the calendar years 2015 to
\* 2019, 31 December 2019 included, the 2020 set for 2020 to 2024, for a
\* decimal date as for a calendar date.
C15_EpochCoversDate ==
    (/\ wmm.call.op \in WMMOps
     /\ wmm.call.raised = "none"
     /\ wmm.call.date.kind # "None"
     /\ YearOf(wmm.call.date) \in 2015..2024) =>
        /\ wmm.self.wmm_filename =
               (IF YearOf(wmm.call.date) <= 2019 THEN WMM2015 ELSE WMM2020)
        /\ wmm.self.epoch = COF(wmm.self.wmm_filename).epoch

\* C16: a magnetic_field call loads (and denormalises) the coefficients once
\* when its date lies in another epoch than the one loaded, and not at all
\* when it lies in the epoch loaded.
C16_ReloadOnlyOnEpochChange ==
    [][(WMMCalled /\ wmm'.call.op = "magnetic_field" /\ wmm'.call.raised = "none") =>
           wmm'.call.loads = (IF wmm'.self.epoch = wmm.self.epoch THEN 0 ELSE 1)]_vars

\* the arrays c, cd and k of a file loaded and denormalised once
DenormalizedOnce(cof_file) ==
    Let(load_coefficients(cof_file), LAMBDA f :
        Let(denormalize_coefficients([NewWMM EXCEPT !.c = f.c, !.cd = f.cd, !.dims = 3]),
            LAMBDA s : [c |-> s.c, cd |-> s.cd, k |-> s.k]))

\* C17: whatever calls came before, a field evaluation runs on coefficients
\* that were denormalised exactly once since they were loaded: one pass is
\* counted, and c, cd and k hold the values of one pass over the file.
C17_DenormalizedOnce ==
    Evaluated =>
        /\ wmm.self.denormalized = 1
        /\ [c |-> wmm.self.c, cd |-> wmm.self.cd, k |-> wmm.self.k]
               = DenormalizedOnce(wmm.self.wmm_filename)

\* an evaluation without a date ran after an earlier call on the object
C17_Witness ==
    /\ Evaluated
    /\ calls = 2
    /\ wmm.call.date = None
    /\ wmm.self.wmm_filename = WMM2020
    /\ wmm.self.denormalized = 1

\* the field elements magnetic_field(lat, lon, h, date) gives on an object
\* just constructed
FieldOfFresh(lat, lon, h, date) ==
    FieldOf(magnetic_field(WMM__init__(Float(Num(2017)), <<>>).self, lat, lon, h, date).self)

\* C18: the field elements of magnetic_field(lat, lon, h, date) with a date
\* given are those the same call gives on a newly constructed object: they
\* depend on the four arguments only, not on the calls made before.
C18_DependsOnArgumentsOnly ==
    (Evaluated /\ wmm.call.date.kind # "None") =>
        FieldOf(wmm.self) = FieldOfFresh(wmm.call.lat, wmm.call.lon, wmm.call.h, wmm.call.date)

\* an evaluation for 2020.37 at latitude 10 was the second call on its object
C18_Witness ==
    /\ Evaluated
    /\ calls = 2
    /\ wmm.call.date = Float(Num(2020) + 379)
    /\ wmm.call.lat = Num(10)
    /\ wmm.self.D < 0

C20_Grivation ==
    Evaluated =>
        wmm.self.GV = (IF wmm.call.lat > Num(55) THEN Sub(wmm.self.D, wmm.call.lon)
                       ELSE IF wmm.call.lat < Num(-55) THEN Add(wmm.self.D, wmm.call.lon)
                       ELSE wmm.self.D)

\* an evaluation at latitude 55 exactly, longitude not zero, gave GV = D
C20_Witness ==
    /\ Evaluated
    /\ wmm.call.lat = Num(55)
    /\ wmm.call.lon # 0
    /\ wmm.self.GV = wmm.self.D


\* a table has the wrong shape when a row does not have the six columns
\* degree, order, g, h, g_dot, h_dot
WrongShape(data) == \E i \in DOMAIN data : Len(data[i]) # 6

\* C21: a malformed coefficient table is rejected at load time: a file name
\* that does not end in ".COF" makes get_properties and load_coefficients
\* raise before the file is opened, and a table with a row that does not carry
\* the six columns makes load_coefficients raise instead of returning
\* coefficient matrices
C21_MalformedTableRejected ==
    /\ wmm.call.op \in {"get_properties", "load_coefficients"}
       /\ wmm.call.file \in {NotCOF, LowerCOF}
       => wmm.call.raised # "none" /\ ~wmm.call.opened
    /\ wmm.call.op = "load_coefficients" /\ WrongShape(COF(wmm.call.file).data)
       => wmm.call.raised # "none"

\* the maximum degree found in any row of a table
MaxDegree(data) == CHOOSE n \in {data[i][1] : i \in DOMAIN data} :
                       \A i \in DOMAIN data : data[i][1] <= n

\* the index set of a square matrix of dimension n
Square(n) == (0..(n - 1)) \X (0..(n - 1))

\* C22: for a table of six-column rows, load_coefficients returns two square
\* matrices of dimension N+1, N being the maximum degree found in any row,
\* whatever the order of the rows
C22_SizedByMaximumDegree ==
    wmm.call.op = "load_coefficients" /\ endswith_COF(wmm.call.file)
    /\ ~WrongShape(COF(wmm.call.file).data)
    => /\ wmm.call.raised = "none"
       /\ DOMAIN wmm.call.ret[1] = Square(MaxDegree(COF(wmm.call.file).data) + 1)
       /\ DOMAIN wmm.call.ret[2] = Square(MaxDegree(COF(wmm.call.file).data) + 1)

\* the read of [m, n-2] by a step (n, m), n > 1 and m # n, whose order m
\* exceeds the degree n-2
OutsideTriangle(r) == r.n > 1 /\ r.m # r.n /\ r.i = r.m /\ r.j = r.n - 2 /\ r.m > r.n - 2

\* the read is of the initial P[0, 0] = 1
InitialP00(r) == r.a = "P" /\ r.i = 0 /\ r.j = 0 /\ r.v = Scale

\* the read is of the initial dP[0, 0] = 0
InitialdP00(r) == r.a = "dP" /\ r.i = 0 /\ r.j = 0 /\ r.v = 0

\* C23 as stated: in the Legendre recursion a read of P[m, n-2] or dP[m, n-2]
\* with m > n-2 yields zero, and every other entry of P or dP that a step
\* reads was written by an earlier step of the evaluation or is the initial
\* P[0, 0] = 1
C23_ReadsWrittenOrP00 ==
    Evaluated =>
        \A r \in wmm.call.reads :
            IF OutsideTriangle(r) THEN r.v = 0 ELSE r.written \/ InitialP00(r)

\* C23: in the Legendre recursion a read of P[m, n-2] or dP[m, n-2] with
\* m > n-2 yields zero, and every other entry of P or dP that a step reads
\* was written by an earlier step of the evaluation or is one of the initial
\* entries P[0, 0] = 1 and dP[0, 0] = 0
C23_ReadsWrittenOrInitial ==
    Evaluated =>
        \A r \in wmm.call.reads :
            IF OutsideTriangle(r) THEN r.v = 0
            ELSE r.written \/ InitialP00(r) \/ InitialdP00(r)

\* an evaluation away from the equator and the poles whose recursion has read
\* an entry outside the triangle, the initial entries, and entries written by
\* earlier steps
C23_Witness ==
    /\ Evaluated
    /\ wmm.call.lat = Num(60)
    /\ \E r \in wmm.call.reads : OutsideTriangle(r) /\ r.v = 0
    /\ \E r \in wmm.call.reads : InitialP00(r)
    /\ \E r \in wmm.call.reads : InitialdP00(r) /\ ~r.written
    /\ \E r \in wmm.call.reads : r.written /\ r.v # 0 /\ r.a = "dP"

\* the matrices load_coefficients returned
Loaded == wmm.call.op = "load_coefficients" /\ wmm.call.raised = "none"

\* C24: load_coefficients packs g and h into one matrix without collision:
\* after the load every row (n, m, g, h, gd, hd) of the table is found again,
\* g at cell [m, n] on or above the diagonal and, for m >= 1, h at cell
\* [n, m-1] strictly below it, the secular variations gd and hd at the same
\* cells of the second matrix; and the cells of distinct coefficients differ
C24_PackedWithoutCollision ==
    Loaded =>
        Let(COF(wmm.call.file).data, LAMBDA data :
            /\ \A i \in DOMAIN data :
                  Let(data[i], LAMBDA row :
                      /\ row[2] <= row[1]
                      /\ wmm.call.ret[1][<<row[2], row[1]>>] = row[3]
                      /\ wmm.call.ret[2][<<row[2], row[1]>>] = row[5]
                      /\ row[2] >= 1 => /\ row[1] > row[2] - 1
                                        /\ wmm.call.ret[1][<<row[1], row[2] - 1>>] = row[4]
                                        /\ wmm.call.ret[2][<<row[1], row[2] - 1>>] = row[6])
            /\ \A i, j \in DOMAIN data :
                  /\ i # j => <<data[i][2], data[i][1]>> # <<data[j][2], data[j][1]>>
                  /\ data[i][2] >= 1 /\ data[j][2] >= 1 /\ i # j
                     => <<data[i][1], data[i][2] - 1>> # <<data[j][1], data[j][2] - 1>>
                  /\ data[j][2] >= 1
                     => <<data[i][2], data[i][1]>> # <<data[j][1], data[j][2] - 1>>)

\* the 2020 table has been loaded: g and h of degree 2 and order 2 sit on
\* the diagonal and left of it
C24_Witness ==
    /\ Loaded
    /\ wmm.call.file = WMM2020
    /\ wmm.call.ret[1][<<2, 2>>] = 172
    /\ wmm.call.ret[1][<<2, 1>>] = -75
    /\ wmm.call.ret[2][<<2, 1>>] = -245

\* the Schmidt factor snorm[m, n] of degree n and order m
RECURSIVE Schmidt(_, _)
Schmidt(m, n) ==
    IF n = 0 THEN Scale
    ELSE IF m = 0 THEN Div(Mul(Schmidt(0, n - 1), Num(2 * n - 1)), Num(n))
    ELSE Mul(Schmidt(m - 1, n),
             Sqrt(Div(Mul(IF m = 1 THEN Num(2) ELSE Scale, Num(n - m + 1)), Num(n + m))))

\* C25: one run of denormalize_coefficients multiplies every coefficient of
\* degree n >= 1 and order m <= n once by the Schmidt factor snorm[m, n], the
\* same factor for g, h and their secular variations, leaves cell [0, 0] as
\* loaded, and fills k[m, n] = ((n-1)^2 - m^2)/((2n-1)(2n-3)), whose
\* denominator is not zero, for every 0 <= m <= n, 1 <= n <= N
C25_DenormalizedBySchmidtFactor ==
    Let(load_coefficients(wmm.self.wmm_filename), LAMBDA L :
        /\ wmm.self.c[<<0, 0>>] = L.c[<<0, 0>>]
        /\ wmm.self.cd[<<0, 0>>] = L.cd[<<0, 0>>]
        /\ \A n \in 1..(wmm.self.dims - 1) : \A m \in 0..n :
              /\ wmm.self.c[<<m, n>>] = Mul(L.c[<<m, n>>], Schmidt(m, n))
              /\ wmm.self.cd[<<m, n>>] = Mul(L.cd[<<m, n>>], Schmidt(m, n))
              /\ m >= 1 => /\ wmm.self.c[<<n, m - 1>>] = Mul(L.c[<<n, m - 1>>], Schmidt(m, n))
                           /\ wmm.self.cd[<<n, m - 1>>] = Mul(L.cd[<<n, m - 1>>], Schmidt(m, n))
              /\ (2 * n - 1) * (2 * n - 3) # 0
              /\ wmm.self.k[<<m, n>>] = Div(Num((n - 1) * (n - 1) - m * m),
                                           Num((2 * n - 1) * (2 * n - 3))))

\* the 2020 table has been loaded and denormalised by a reset: h of degree 2
\* and order 2 has been scaled by a factor other than 1, and k is filled
C25_Witness ==
    /\ wmm.call.op = "reset_coefficients" /\ wmm.call.raised = "none"
    /\ wmm.self.wmm_filename = WMM2020
    /\ Schmidt(2, 2) \notin {0, Scale}
    /\ Schmidt(1, 2) # Schmidt(2, 2)
    /\ wmm.self.c[<<2, 1>>] = Mul(-75, Schmidt(2, 2))
    /\ wmm.self.c[<<2, 1>>] # -75
    /\ wmm.self.k[<<0, 2>>] = Div(Num(1), Num(3))
    /\ wmm.self.k[<<2, 2>>] = Num(-1)

\* what a rejected date must leave alone: the date and the decimal date, the
\* file selected, the epoch and the coefficient matrices
DateAndCoefficients(self) ==
    <<self.date, self.date_dec, self.wmm_filename, self.epoch, self.c, self.cd>>

\* C27: a call of reset_coefficients or magnetic_field that rejects its date
\* with ValueError leaves the object as it was before the call: the stored
\* date and decimal date, the file selected, the epoch and the loaded
\* coefficient matrices are unchanged
C27_RejectedDateChangesNothing ==
    [][WMMCalled /\ wmm'.call.raised = "ValueError"
       => DateAndCoefficients(wmm'.self) = DateAndCoefficients(wmm.self)]_vars

===========================================================================
